---- MODULE Spec2Model ----
(***************************************************************************)
(* The workflow execution engine of backend/app/services/executor.py:      *)
(* the per-workflow lock, the execution-record lifecycle of                *)
(* execute_workflow, and the recursive traverser execute_node_chain with   *)
(* its node handlers.                                                      *)
(***************************************************************************)
EXTENDS Integers, Sequences, FiniteSets, TLC

\* Execution limits (executor.py:58-60).
MAX_NODE_DEPTH == 100
MAX_NODE_VISITS == 500

\* Number of execute_workflow invocations a behaviour may contain.
MaxInvocations == 2

\* Number of job ids the scheduler may hand out.
MaxJobs == 2

\* A dictionary key that is not present (dict.get returns its default).
Absent == "<absent>"
\* Python's None where a string or a record is expected.
None == "<none>"

Invocations == 1..MaxInvocations
WorkflowIds == {1, 2}

-----------------------------------------------------------------------------
(* Python values held by context.variables, node data and handler results: *)
(* a tag t, a number n, a string s, and for a dict its items d in          *)
(* insertion order, each a pair <<key, value>>.                            *)

PyNone == [t |-> "none", n |-> 0, s |-> "", d |-> <<>>]
PyInt(n) == [t |-> "int", n |-> n, s |-> "", d |-> <<>>]
\* A float with an integral value.
PyFloat(n) == [t |-> "float", n |-> n, s |-> "", d |-> <<>>]
PyBool(b) == [t |-> "bool", n |-> IF b THEN 1 ELSE 0, s |-> "", d |-> <<>>]
PyStr(s) == [t |-> "str", n |-> 0, s |-> s, d |-> <<>>]
PyDict(items) == [t |-> "dict", n |-> 0, s |-> "", d |-> items]

-----------------------------------------------------------------------------
(* The graph JSON: nodes {id, type, data} and edges {source, target,       *)
(* sourceHandle?}.                                                         *)

Node(id, type, data) == [id |-> id, type |-> type, data |-> data]

Edge(source, target, sourceHandle) ==
    [source |-> source, target |-> target, sourceHandle |-> sourceHandle]

\* edge.get("sourceHandle", "")
SourceHandle(edge) == IF edge.sourceHandle = Absent THEN "" ELSE edge.sourceHandle

\* The indices of seq in increasing order: the order a for loop or a
\* generator over seq visits its elements in.
Indices(seq) == [k \in 1..Len(seq) |-> k]

\* edge_map.get(node_id, []): the outgoing edges in declared order, as indices
\* into workflow.edges.
EdgeMapGet(edges, node_id) == 
    SelectSeq(Indices(edges), LAMBDA k : edges[k].source = node_id)

\* incoming_edge_map.get(node_id, []): the incoming edges in declared order.
IncomingEdgeMapGet(edges, node_id) == 
    SelectSeq(Indices(edges), LAMBDA k : edges[k].target = node_id)

\* A lookup that falls back on the first node when no node has the id.
FindNodeOrFirst(nodes, node_id) ==
    LET hits == SelectSeq(Indices(nodes), LAMBDA k : nodes[k].id = node_id)
    IN IF hits = <<>> THEN 1 ELSE Head(hits)

\* next((n for n in nodes if n["id"] == node_id), None): the index of the first
\* node with that id, 0 for None.
FindNode(nodes, node_id) ==
    LET hits == SelectSeq(Indices(nodes), LAMBDA k : nodes[k].id = node_id)
    IN IF hits = <<>> THEN 0 ELSE Head(hits)

\* A lookup that takes the first node whatever its kind.
FirstNode(nodes) == IF nodes = <<>> THEN 0 ELSE 1

\* next((n for n in nodes if n.get("type") == "start"), None)
FindStartNode(nodes) ==
    LET hits == SelectSeq(Indices(nodes), LAMBDA k : nodes[k].type = "start")
    IN IF hits = <<>> THEN 0 ELSE Head(hits)

-----------------------------------------------------------------------------
(* Times of day.  A time string is modelled after split(":"): a sequence   *)
(* of parts, each a string.                                                *)

\* int(part) for the parts with part.isdigit().
DigitValue ==
    [x \in {"00", "09", "10", "12", "15", "17", "23", "30", "59", "99"} |->
        CASE x = "00" -> 0 [] x = "09" -> 9 [] x = "10" -> 10 [] x = "12" -> 12
          [] x = "15" -> 15 [] x = "17" -> 17 [] x = "23" -> 23 [] x = "30" -> 30
          [] x = "59" -> 59 [] x = "99" -> 99]

\* Parts of digits that are no decimal digits, U+00B2 SUPERSCRIPT TWO for
\* one: part.isdigit() is true and int(part) raises ValueError.
SuperscriptDigits == {"<superscript 2>"}

\* part.isdigit()
IsDigit(part) == part \in DOMAIN DigitValue \cup SuperscriptDigits

Clamp(lo, hi, v) == IF v < lo THEN lo ELSE IF v > hi THEN hi ELSE v

\* The time string is the sequence of the parts between its colons, <<>>
\* for the empty string and for a value that is no string.
parse_time_string(time_str, default_hour, default_minute) ==
    IF time_str = <<>>
    THEN <<default_hour, default_minute, 0>>
    ELSE IF \E k \in 1..3 : Len(time_str) >= k /\ time_str[k] \in SuperscriptDigits
    THEN \* int() raises ValueError, caught by the except clause
         <<default_hour, default_minute, 0>>
    ELSE LET hour == IF IsDigit(time_str[1]) THEN DigitValue[time_str[1]] ELSE default_hour
             minute == IF Len(time_str) > 1 /\ IsDigit(time_str[2])
                       THEN DigitValue[time_str[2]] ELSE default_minute
             second == IF Len(time_str) > 2 /\ IsDigit(time_str[3])
                       THEN DigitValue[time_str[3]] ELSE 0
         IN <<Clamp(0, 23, hour), Clamp(0, 59, minute), Clamp(0, 59, second)>>

\* Order of datetime.time values.
Seconds(t) == t[1] * 3600 + t[2] * 60 + t[3]

\* Wall-clock readings datetime.now().time() may return.
ClockValues == {<<9, 0, 0>>, <<11, 0, 0>>, <<12, 30, 0>>, <<16, 0, 0>>}

\* int(s) for the strings a node's numeric field may hold; a string outside the
\* table is not a number and int() raises ValueError on it.
IntLiteral == [x \in {"1", "5"} |-> IF x = "1" THEN 1 ELSE 5]

-----------------------------------------------------------------------------
(* Operations on Python values.                                            *)

\* bool(v)
Truthy(v) ==
    CASE v.t = "none" -> FALSE
      [] v.t \in {"int", "float", "bool"} -> v.n # 0
      [] v.t = "str" -> v.s # ""
      [] v.t = "dict" -> v.d # <<>>

DigitChar == <<"0", "1", "2", "3", "4", "5", "6", "7", "8", "9">>

RECURSIVE NatStr(_)
NatStr(n) == IF n < 10 THEN DigitChar[n + 1] ELSE NatStr(n \div 10) \o DigitChar[(n % 10) + 1]

\* str(n) for an int
IntStr(n) == IF n < 0 THEN "-" \o NatStr(0 - n) ELSE NatStr(n)

\* dict.get(key): the value of the item with that key, None without one.
DictGet(items, key) ==
    LET hits == SelectSeq(Indices(items), LAMBDA k : items[k][1] = key)
    IN IF hits = <<>> THEN PyNone ELSE items[Head(hits)][2]

\* d[key] = value
DictSet(items, key, value) ==
    IF \E k \in DOMAIN items : items[k][1] = key
    THEN [k \in DOMAIN items |-> IF items[k][1] = key THEN <<key, value>> ELSE items[k]]
    ELSE Append(items, <<key, value>>)

\* repr(v), and the items of a dict as repr() writes them.
RECURSIVE Repr(_), ItemsRepr(_)
Repr(v) ==
    CASE v.t = "none" -> "None"
      [] v.t = "int" -> IntStr(v.n)
      [] v.t = "float" -> IntStr(v.n) \o ".0"
      [] v.t = "bool" -> IF v.n = 1 THEN "True" ELSE "False"
      [] v.t = "str" -> "'" \o v.s \o "'"
      [] v.t = "dict" -> "{" \o ItemsRepr(v.d) \o "}"

ItemsRepr(items) ==
    IF items = <<>> THEN ""
    ELSE "'" \o items[1][1] \o "': " \o Repr(items[1][2])
         \o (IF Len(items) > 1 THEN ", " ELSE "") \o ItemsRepr(Tail(items))

\* str(v)
Str(v) == IF v.t = "str" THEN v.s ELSE Repr(v)

\* float(s) for the strings of the model; a string outside the table is not
\* a number and float() raises ValueError on it.
FloatLiteral ==
    [x \in {"0", "0.0", "1", "2", "5", "10"} |->
        CASE x = "0" -> 0 [] x = "0.0" -> 0 [] x = "1" -> 1 [] x = "2" -> 2
          [] x = "5" -> 5 [] x = "10" -> 10]

-----------------------------------------------------------------------------
(* WorkflowContext.interpolate.  A text is its sequence of segments as the *)
(* pattern {{([^}]+)}} cuts it: literal runs, and placeholders with their  *)
(* source text and the dotted path inside, stripped and split on ".".      *)

Lit(text) == [lit |-> TRUE, text |-> text, path |-> <<>>]
Placeholder(text, path) == [lit |-> FALSE, text |-> text, path |-> path]

\* Two decimal digits: strftime("%H"), ("%M"), ("%S").
TwoDigits(n) == DigitChar[(n \div 10) + 1] \o DigitChar[(n % 10) + 1]

\* The day of the model's clock.
Today == [date |-> "2026-01-05", year |-> "2026", month |-> "01", day |-> "05",
          weekday |-> "Monday"]

\* _get_builtin_variable: the builtins dict of the moment `clock`.
Builtins(clock) ==
    LET time == TwoDigits(clock[1]) \o ":" \o TwoDigits(clock[2]) \o ":" \o TwoDigits(clock[3])
    IN <<<<"timestamp", PyStr(Today.date \o " " \o time)>>,
         <<"date", PyStr(Today.date)>>,
         <<"time", PyStr(time)>>,
         <<"year", PyStr(Today.year)>>,
         <<"month", PyStr(Today.month)>>,
         <<"day", PyStr(Today.day)>>,
         <<"hour", PyStr(TwoDigits(clock[1]))>>,
         <<"minute", PyStr(TwoDigits(clock[2]))>>,
         <<"second", PyStr(TwoDigits(clock[3]))>>,
         <<"weekday", PyStr(Today.weekday)>>,
         <<"iso_timestamp", PyStr(Today.date \o "T" \o time)>>>>

\* The loop of replacer over the parts of the path: the value reached, None
\* when a part is missing or is looked up in something that is no dict.
RECURSIVE Walk(_, _)
Walk(value, parts) ==
    IF parts = <<>> THEN value
    ELSE IF value.t # "dict" THEN PyNone
    ELSE LET found == DictGet(value.d, Head(parts))
         IN IF found.t = "none" THEN PyNone ELSE Walk(found, Tail(parts))

\* The dotted path as the one name _get_builtin_variable is asked for.
RECURSIVE Dotted(_)
Dotted(parts) ==
    IF Len(parts) = 1 THEN parts[1] ELSE parts[1] \o "." \o Dotted(Tail(parts))

\* A replacer that substitutes nothing.
KeepPlaceholder(segment, variables_, clock) == segment.text

\* replacer(match)
Replace(segment, variables_, clock) ==
    LET builtin_value == DictGet(Builtins(clock), Dotted(segment.path))
        value == Walk(PyDict(variables_), segment.path)
    IN IF builtin_value.t # "none" THEN builtin_value.s
       ELSE IF value.t = "none" THEN segment.text
       ELSE Str(value)

RECURSIVE interpolate(_, _, _)
interpolate(text, variables_, clock) ==
    IF text = <<>> THEN ""
    ELSE (IF text[1].lit THEN text[1].text ELSE Replace(text[1], variables_, clock))
         \o interpolate(Tail(text), variables_, clock)

-----------------------------------------------------------------------------
(* NodeExecutor._safe_eval_math.  An expression is the tree ast.parse      *)
(* builds for it: kind is the class of the ast node, op the class of its   *)
(* operator (or the identifier of a Name), value the value of a Constant,  *)
(* args the child nodes.  A Hole stands for a placeholder {{path}} of the   *)
(* expression's text, which interpolate fills in before the text is parsed.*)

AstNode(kind, op, value, args, path) ==
    [kind |-> kind, op |-> op, value |-> value, args |-> args, path |-> path]

Const(value) == AstNode("Constant", "", value, <<>>, <<>>)
BinOp(op, left, right) == AstNode("BinOp", op, PyNone, <<left, right>>, <<>>)
UnaryOp(op, operand) == AstNode("UnaryOp", op, PyNone, <<operand>>, <<>>)
Name(id) == AstNode("Name", id, PyNone, <<>>, <<>>)
Call(func, arg) == AstNode("Call", "", PyNone, <<func, arg>>, <<>>)
Attribute(value, attr) == AstNode("Attribute", attr, PyNone, <<value>>, <<>>)
Compare(op, left, right) == AstNode("Compare", op, PyNone, <<left, right>>, <<>>)
Hole(path) == AstNode("Hole", "", PyNone, <<>>, path)
\* ast.parse raising SyntaxError, and a text that is blank after strip().
NoParse == AstNode("SyntaxError", "", PyNone, <<>>, <<>>)
Blank == AstNode("Blank", "", PyNone, <<>>, <<>>)

\* The tree of the text str(value) put in the place of a placeholder whose
\* path leads to that value; an unresolved placeholder stays {{path}}, which
\* parses as a set display.  A string parses as the number it writes, as
\* the constant True or False, or else as a name.
ParseValue(v) ==
    CASE v.t = "none" -> AstNode("Set", "", PyNone, <<>>, <<>>)
      [] v.t = "dict" -> AstNode("Dict", "", PyNone, <<>>, <<>>)
      [] v.t = "bool" -> Const(v)
      [] v.t \in {"int", "float"} ->
            IF v.n < 0 THEN UnaryOp("USub", Const([v EXCEPT !.n = 0 - v.n])) ELSE Const(v)
      [] v.t = "str" ->
            IF v.s \in DOMAIN FloatLiteral THEN Const(PyInt(FloatLiteral[v.s]))
            ELSE IF v.s \in {"True", "False"} THEN Const(PyBool(v.s = "True"))
            ELSE Name(v.s)

\* The tree of the interpolated text.
RECURSIVE Fill(_, _)
Fill(node, variables_) ==
    IF node.kind = "Hole" THEN ParseValue(Walk(PyDict(variables_), node.path))
    ELSE [node EXCEPT !.args = [k \in DOMAIN node.args |-> Fill(node.args[k], variables_)]]

\* What _eval gives: a number, or the exception it raises.
Num(n) == [ok |-> TRUE, n |-> n, error |-> ""]
EvalError(message) == [ok |-> FALSE, n |-> 0, error |-> message]

\* The keys of the operators dict that are binary, and those that are unary.
BinaryOperators == {"Add", "Sub", "Mult", "Div", "Mod", "Pow"}
UnaryOperators == {"USub", "UAdd"}

\* a % b with the sign of b, as Python computes it.
PyMod(a, b) == IF b > 0 THEN a % b ELSE 0 - ((0 - a) % (0 - b))

\* a ** b for an exponent that is not negative.
RECURSIVE PyPow(_, _)
PyPow(a, b) == IF b = 0 THEN 1 ELSE a * PyPow(a, b - 1)

\* operators[op_type](left, right).  The quotients of the model's
\* expressions are whole numbers, and their exponents are not negative.
ApplyBinary(op, left, right) ==
    CASE op = "Add" -> Num(left + right)
      [] op = "Sub" -> Num(left - right)
      [] op = "Mult" -> Num(left * right)
      [] op = "Div" -> IF right = 0 THEN EvalError("division by zero")
                       ELSE Num(IF (left < 0) = (right < 0)
                                THEN (IF left < 0 THEN 0 - left ELSE left)
                                     \div (IF right < 0 THEN 0 - right ELSE right)
                                ELSE 0 - ((IF left < 0 THEN 0 - left ELSE left)
                                          \div (IF right < 0 THEN 0 - right ELSE right)))
      [] op = "Mod" -> IF right = 0 THEN EvalError("integer modulo by zero")
                       ELSE Num(PyMod(left, right))
      [] op = "Pow" -> Num(PyPow(left, right))

\* isinstance(node.value, (int, float)): bool is a subclass of int.
IsNumber(v) == v.t \in {"int", "float", "bool"}

\* _eval(node)
RECURSIVE Eval(_)
Eval(node) ==
    CASE node.kind = "Constant" ->
            IF IsNumber(node.value) THEN Num(node.value.n)
            ELSE EvalError("Unsupported constant: " \o Str(node.value))
      [] node.kind = "BinOp" ->
            LET left == Eval(node.args[1])
                right == Eval(node.args[2])
            IN IF ~left.ok THEN left
               ELSE IF ~right.ok THEN right
               ELSE IF node.op \notin BinaryOperators
               THEN EvalError("Unsupported operator: " \o node.op)
               ELSE ApplyBinary(node.op, left.n, right.n)
      [] node.kind = "UnaryOp" ->
            LET operand == Eval(node.args[1])
            IN IF ~operand.ok THEN operand
               ELSE IF node.op \notin UnaryOperators
               THEN EvalError("Unsupported unary operator: " \o node.op)
               ELSE Num(IF node.op = "USub" THEN 0 - operand.n ELSE operand.n)
      [] OTHER -> EvalError("Unsupported expression type: " \o node.kind)

\* _safe_eval_math(expression), for the tree of the expression's text.
safe_eval_math(tree) ==
    CASE tree.kind = "Blank" -> EvalError("Empty expression")
      [] tree.kind = "SyntaxError" -> EvalError("Invalid expression syntax")
      [] OTHER -> Eval(tree)

-----------------------------------------------------------------------------
(* The workflows the model runs.                                           *)

\* The data of a node without any key.  A time field that is missing or
\* empty is the empty sequence of parts.  A text field (message, symbol) is
\* the sequence of its segments, see interpolate.  The key value is held
\* twice: valueText for a JSON string, value for any other JSON value.  An
\* expression is its text and the tree of that text.
NoData == [label |-> Absent, quantity |-> Absent, startTime |-> <<>>, endTime |-> <<>>,
           message |-> <<>>, level |-> Absent, symbol |-> <<>>, outputVariable |-> Absent,
           variableName |-> Absent, operation |-> Absent, value |-> PyNone,
           valueText |-> <<>>, expression |-> [text |-> <<>>, tree |-> Blank],
           targetTime |-> <<>>, checkIntervalMs |-> Absent,
           operator |-> Absent, threshold |-> PyNone,
           expiryType |-> Absent, strategy |-> Absent, action |-> Absent]

Graph(name, nodes, edges) == [name |-> name, nodes |-> nodes, edges |-> edges]

\* No row in the workflows table.
NoRow == Graph("<no row>", <<>>, <<>>)

\* start -> placeOrder
SimpleBuy ==
    Graph("SimpleBuy",
          <<Node("s", "start", NoData),
            Node("o", "placeOrder", [NoData EXCEPT !.quantity = "1"])>>,
          <<Edge("s", "o", Absent)>>)

\* No node of kind start.
NoStart == Graph("NoStart", <<Node("l", "log", NoData)>>, <<>>)

\* start -> modifyOrder(quantity "1") -> modifyOrder(quantity "abc") -> log
BadInput ==
    Graph("BadInput",
          <<Node("s", "start", NoData),
            Node("m1", "modifyOrder", [NoData EXCEPT !.quantity = "1"]),
            Node("m2", "modifyOrder", [NoData EXCEPT !.quantity = "abc"]),
            Node("l", "log", NoData)>>,
          <<Edge("s", "m1", Absent), Edge("m1", "m2", Absent), Edge("m2", "l", Absent)>>)

\* start -> placeOrder -> log, and a second edge of start to a group node.
OrderThenLog ==
    Graph("OrderThenLog",
          <<Node("s", "start", NoData),
            Node("o", "placeOrder", [NoData EXCEPT !.label = "Buy"]),
            Node("l", "log", NoData),
            Node("g", "group", NoData)>>,
          <<Edge("s", "o", Absent), Edge("o", "l", Absent), Edge("s", "g", Absent)>>)

Window(from, to) == [NoData EXCEPT !.startTime = from, !.endTime = to]

\* A conditional with one edge of every kind of sourceHandle.
Route ==
    Graph("Route",
          <<Node("s", "start", NoData),
            Node("c", "timeWindow", Window(<<"10", "00">>, <<"15", "00">>)),
            Node("a", "log", NoData), Node("b", "log", NoData),
            Node("d", "log", NoData), Node("e", "log", NoData)>>,
          <<Edge("s", "c", Absent),
            Edge("c", "b", "no"), Edge("c", "d", Absent), Edge("c", "a", "yes"),
            Edge("c", "e", "output"), Edge("c", "d", "")>>)

\* A conditional that is always true, with a "yes" edge back to itself.
SelfLoop ==
    Graph("SelfLoop",
          <<Node("s", "start", NoData),
            Node("c", "timeWindow", Window(<<"00", "00">>, <<"23", "59">>))>>,
          <<Edge("s", "c", Absent), Edge("c", "c", "yes")>>)

\* start feeds two timeWindow conditionals, both feed one andGate, the gate
\* feeds a placeOrder; `handle` labels the edges into the gate.
AndGateGraph(name, handle) ==
    Graph(name,
          <<Node("s", "start", NoData),
            Node("t1", "timeWindow", Window(<<"10", "00">>, <<"15", "00">>)),
            Node("t2", "timeWindow", Window(<<"12", "00">>, <<"17", "00">>)),
            Node("g", "andGate", NoData),
            Node("o", "placeOrder", [NoData EXCEPT !.quantity = "1"])>>,
          <<Edge("s", "t1", Absent), Edge("s", "t2", Absent),
            Edge("t1", "g", handle), Edge("t2", "g", handle),
            Edge("g", "o", "yes")>>)

\* Two timeWindow conditionals feeding an andGate and an orGate, the first
\* also a notGate, and one gate of each kind fed by the start node only.
Gates ==
    Graph("Gates",
          <<Node("s", "start", NoData),
            Node("t1", "timeWindow", Window(<<"10", "00">>, <<"15", "00">>)),
            Node("t2", "timeWindow", Window(<<"12", "00">>, <<"17", "00">>)),
            Node("ag", "andGate", NoData), Node("og", "orGate", NoData),
            Node("ng", "notGate", NoData),
            Node("ag0", "andGate", NoData), Node("og0", "orGate", NoData),
            Node("ng0", "notGate", NoData)>>,
          <<Edge("s", "t1", Absent), Edge("s", "t2", Absent),
            Edge("s", "ag0", Absent), Edge("s", "og0", Absent), Edge("s", "ng0", Absent),
            Edge("t1", "ag", Absent), Edge("t1", "og", Absent), Edge("t1", "ng", Absent),
            Edge("t2", "ag", Absent), Edge("t2", "og", Absent)>>)

\* A node of a kind the dispatch does not know, with one outgoing edge of
\* every kind of sourceHandle.
UnknownKind ==
    Graph("UnknownKind",
          <<Node("s", "start", NoData), Node("u", "telepathy", NoData),
            Node("a", "log", NoData), Node("b", "log", NoData),
            Node("c", "log", NoData), Node("d", "log", NoData)>>,
          <<Edge("s", "u", Absent),
            Edge("u", "a", "yes"), Edge("u", "b", "no"), Edge("u", "c", "output"),
            Edge("u", "d", Absent)>>)

\* Layers of two log nodes, each node feeding both nodes of the next layer:
\* acyclic, depth 8, and 1 + 2 + 4 + ... + 256 = 511 node visits.
LayerX == <<"x1", "x2", "x3", "x4", "x5", "x6", "x7", "x8">>
LayerY == <<"y1", "y2", "y3", "y4", "y5", "y6", "y7", "y8">>

Layered ==
    LET layers == Len(LayerX)
        layerNodes == [k \in 1..(2 * layers) |->
                         IF k <= layers THEN Node(LayerX[k], "log", NoData)
                         ELSE Node(LayerY[k - layers], "log", NoData)]
        \* four edges from layer k to layer k + 1
        between == [j \in 1..(4 * (layers - 1)) |->
                      LET k == ((j - 1) \div 4) + 1
                          r == (j - 1) % 4
                      IN Edge(IF r < 2 THEN LayerX[k] ELSE LayerY[k],
                              IF r % 2 = 0 THEN LayerX[k + 1] ELSE LayerY[k + 1],
                              Absent)]
    IN Graph("Layered",
             <<Node("s", "start", NoData)>> \o layerNodes,
             <<Edge("s", "x1", Absent), Edge("s", "y1", Absent)>> \o between)

\* if visited_count[node_id] > 10: the visits of one node after which every
\* further visit is logged as a warning.
WarnAfterVisits == 10

\* Edges to "ghost", an id no node has: the first edge of the start node
\* and the first edge of a placeOrder node, each with a sibling after it.
Dangling ==
    Graph("Dangling",
          <<Node("s", "start", NoData),
            Node("o", "placeOrder", [NoData EXCEPT !.quantity = "1"]),
            Node("l", "log", NoData)>>,
          <<Edge("s", "ghost", Absent), Edge("s", "o", Absent),
            Edge("o", "ghost", "yes"), Edge("o", "l", Absent)>>)

\* One edge more to "ghost" than the visits that go without a warning, and
\* a sibling after them.
DanglingMany ==
    Graph("DanglingMany",
          <<Node("s", "start", NoData), Node("l", "log", NoData)>>,
          [k \in 1..(WarnAfterVisits + 1) |-> Edge("s", "ghost", Absent)]
             \o <<Edge("s", "l", Absent)>>)

\* Edges to "ghost" below a conditional, on its "yes" side, on its "no"
\* side and unlabelled, and from the log nodes after it.
DanglingBelow ==
    Graph("DanglingBelow",
          <<Node("s", "start", NoData),
            Node("c", "timeWindow", Window(<<"00", "00">>, <<"23", "59">>)),
            Node("l", "log", NoData), Node("m", "log", NoData)>>,
          <<Edge("s", "c", Absent),
            Edge("c", "ghost", "yes"), Edge("c", "ghost", "no"), Edge("c", "m", "yes"),
            Edge("c", "ghost", Absent), Edge("m", "ghost", Absent),
            Edge("s", "l", Absent), Edge("l", "ghost", Absent)>>)

DanglingGraphs == {Dangling, DanglingMany, DanglingBelow}

\* The graphs workflow 1 may hold when concurrent invocations are explored.
OrchestratorGraphs == {SimpleBuy, NoStart}

\* The graphs workflow 1 may hold when one execution is followed to its end.
TraversalGraphs ==
    {SimpleBuy, NoStart, BadInput, OrderThenLog, Route, SelfLoop, Layered, Gates,
     UnknownKind,
     AndGateGraph("AndGateYes", "yes"), AndGateGraph("AndGateDefault", Absent)}

\* Two log nodes whose messages refer to the webhook payload and to a
\* built-in variable.
Echo ==
    Graph("Echo",
          <<Node("s", "start", NoData),
            Node("l1", "log",
                 [NoData EXCEPT !.message =
                     <<Lit("sym="),
                       Placeholder("{{webhook.symbol}}", <<"webhook", "symbol">>)>>]),
            Node("l2", "log",
                 [NoData EXCEPT !.message =
                     <<Placeholder("{{webhook.order.side}}", <<"webhook", "order", "side">>),
                       Lit(" at "), Placeholder("{{ hour }}", <<"hour">>),
                       Lit(" "), Placeholder("{{webhook}}", <<"webhook">>)>>,
                   !.level = "warning"])>>,
          <<Edge("s", "l1", Absent), Edge("l1", "l2", Absent)>>)

\* A streamed quote stored under the output variable and then logged.
QuoteGraph(name, output_var) ==
    Graph(name,
          <<Node("s", "start", NoData),
            Node("q", "subscribeLtp",
                 [NoData EXCEPT !.symbol = <<Lit("SBIN")>>, !.outputVariable = output_var]),
            Node("l", "log",
                 [NoData EXCEPT !.message =
                     <<Lit("px="), Placeholder("{{px}}", <<"px">>),
                       Lit(" ltp="), Placeholder("{{ltp}}", <<"ltp">>)>>])>>,
          <<Edge("s", "q", Absent), Edge("q", "l", Absent)>>)

QuoteGraphs ==
    {QuoteGraph("QuoteNamed", "px"), QuoteGraph("QuoteDefault", Absent),
     QuoteGraph("QuotePadded", " px ")}

\* x is set to 10 and then handed to the node `node`; a log node follows.
AfterSettingX(name, node) ==
    Graph(name,
          <<Node("s", "start", NoData),
            Node("v0", "variable",
                 [NoData EXCEPT !.variableName = "x", !.operation = "set",
                                !.value = PyInt(10)]),
            node,
            Node("l", "log",
                 [NoData EXCEPT !.message = <<Lit("x="), Placeholder("{{x}}", <<"x">>)>>])>>,
          <<Edge("s", "v0", Absent), Edge("v0", node.id, Absent),
            Edge(node.id, "l", Absent)>>)

\* x is divided by a divisor given as a JSON number or as a JSON string.
DivideGraph(name, value, valueText) ==
    AfterSettingX(name,
        Node("d", "variable",
             [NoData EXCEPT !.variableName = "x", !.operation = "divide",
                            !.value = value, !.valueText = valueText]))

DivideGraphs ==
    {DivideGraph("DivideByTwo", PyInt(2), <<>>),
     DivideGraph("DivideByFive", PyNone, <<Lit("5")>>),
     DivideGraph("DivideByNothing", PyNone, <<>>),
     DivideGraph("DivideByZeroNumber", PyInt(0), <<>>),
     DivideGraph("DivideByZeroText", PyNone, <<Lit("0")>>),
     DivideGraph("DivideByZeroPointZero", PyNone, <<Lit("0.0")>>),
     DivideGraph("DivideByUnset", PyNone, <<Placeholder("{{z}}", <<"z">>)>>)}

\* x is set to 10 and then handed to an operation the variable node lacks.
UnknownOperation ==
    AfterSettingX("UnknownOperation",
        Node("d", "variable",
             [NoData EXCEPT !.variableName = "x", !.operation = "toggle"]))

\* An expression, given by its text and the tree of that text, is evaluated
\* into output_var.
MathGraph(name, text, tree, output_var) ==
    AfterSettingX(name,
        Node("m", "mathExpression",
             [NoData EXCEPT !.expression = [text |-> text, tree |-> tree],
                            !.outputVariable = output_var]))

X == Placeholder("{{x}}", <<"x">>)

\* Expressions that divide by zero.
ZeroDivisionGraphs ==
    {MathGraph("XOverZero", <<X, Lit(" / 0")>>,
               BinOp("Div", Hole(<<"x">>), Const(PyInt(0))), "x"),
     MathGraph("XModZero", <<X, Lit(" % 0")>>,
               BinOp("Mod", Hole(<<"x">>), Const(PyInt(0))), "x"),
     MathGraph("OneOverXMinusTen", <<Lit("1 / ("), X, Lit(" - 10)")>>,
               BinOp("Div", Const(PyInt(1)),
                     BinOp("Sub", Hole(<<"x">>), Const(PyInt(10)))), Absent)}

\* Expressions of arithmetic alone.
ArithmeticGraphs ==
    {MathGraph("XOverTwo", <<X, Lit(" / 2")>>,
               BinOp("Div", Hole(<<"x">>), Const(PyInt(2))), "x"),
     MathGraph("Powers", <<Lit("2 ** 3 - -1 + +"), X, Lit(" % 3 * 2")>>,
               BinOp("Add",
                     BinOp("Sub", BinOp("Pow", Const(PyInt(2)), Const(PyInt(3))),
                           UnaryOp("USub", Const(PyInt(1)))),
                     BinOp("Mult",
                           BinOp("Mod", UnaryOp("UAdd", Hole(<<"x">>)), Const(PyInt(3))),
                           Const(PyInt(2)))), Absent)}

\* Expressions with something else in them.
OtherGraphs ==
    {MathGraph("ACall", <<Lit("abs(1)")>>, Call(Name("abs"), Const(PyInt(1))), "x"),
     MathGraph("AName", <<Lit("x + 1")>>, BinOp("Add", Name("x"), Const(PyInt(1))), "x"),
     MathGraph("AnAttribute", <<Lit("(1).real")>>, Attribute(Const(PyInt(1)), "real"), "x"),
     MathGraph("AComparison", <<Lit("1 < 2")>>,
               Compare("Lt", Const(PyInt(1)), Const(PyInt(2))), "x"),
     MathGraph("ABitwiseAnd", <<Lit("6 & 3")>>,
               BinOp("BitAnd", Const(PyInt(6)), Const(PyInt(3))), "x"),
     MathGraph("AFloorDivision", <<Lit("7 // 2")>>,
               BinOp("FloorDiv", Const(PyInt(7)), Const(PyInt(2))), Absent),
     MathGraph("AnInversion", <<Lit("~1")>>, UnaryOp("Invert", Const(PyInt(1))), "x"),
     MathGraph("AString", <<Lit("'a' * 2")>>,
               BinOp("Mult", Const(PyStr("a")), Const(PyInt(2))), "x"),
     MathGraph("ATruthValue", <<Lit("True + 1")>>,
               BinOp("Add", Const(PyBool(TRUE)), Const(PyInt(1))), "x"),
     MathGraph("AnUnsetVariable", <<Placeholder("{{y}}", <<"y">>), Lit(" + 1")>>,
               BinOp("Add", Hole(<<"y">>), Const(PyInt(1))), "x"),
     MathGraph("NotAnExpression", <<Lit("1 +")>>, NoParse, "x")}

MathGraphs == ZeroDivisionGraphs \cup ArithmeticGraphs \cup OtherGraphs

\* One wait, or two in a row, and then a log node.
WaitGraph(name, target) ==
    Graph(name,
          <<Node("s", "start", NoData),
            Node("w", "waitUntil", [NoData EXCEPT !.targetTime = target]),
            Node("l", "log", NoData)>>,
          <<Edge("s", "w", Absent), Edge("w", "l", Absent)>>)

WaitTwice ==
    Graph("WaitTwice",
          <<Node("s", "start", NoData),
            Node("w1", "waitUntil", [NoData EXCEPT !.targetTime = <<"12", "00">>]),
            Node("w2", "waitUntil",
                 [NoData EXCEPT !.targetTime = <<"12", "30", "00">>, !.checkIntervalMs = "5"]),
            Node("w3", "waitUntil", [NoData EXCEPT !.targetTime = <<"10", "xx">>]),
            Node("l", "log", NoData)>>,
          <<Edge("s", "w1", Absent), Edge("w1", "w2", Absent), Edge("w2", "w3", Absent),
            Edge("w3", "l", Absent)>>)

WaitGraphs ==
    {WaitGraph("WaitForNine", <<"09", "00">>), WaitGraph("WaitForDefault", <<>>),
     WaitGraph("WaitForNoon", <<"12", "00">>), WaitGraph("WaitForAfternoon", <<"15", "30">>),
     WaitTwice}

\* A condition of the given kind with a yes, a no and an unlabelled edge.
ConditionGraph(name, kind, operator, threshold) ==
    Graph(name,
          <<Node("s", "start", NoData),
            Node("c", kind,
                 [NoData EXCEPT !.symbol = <<Lit("SBIN")>>, !.operator = operator,
                                !.threshold = threshold]),
            Node("a", "log", NoData), Node("b", "log", NoData), Node("d", "log", NoData)>>,
          <<Edge("s", "c", Absent), Edge("c", "a", "yes"), Edge("c", "b", "no"),
            Edge("c", "d", Absent)>>)

ConditionKinds == {"positionCheck", "fundCheck", "priceCondition"}
ConditionOperators == {"gt", "gte", "lt", "lte", "eq", "neq"}

ConditionGraphs ==
    {ConditionGraph(kind \o " " \o operator, kind, operator, PyInt(100)) :
        kind \in ConditionKinds, operator \in {"gt", "lte", "neq", "between", "GT", Absent}}

ExpiryTypes == {"current_week", "next_week", "current_month", "next_month"}

\* An options order of the given kind, followed by two log nodes, one of
\* them behind an edge labelled no.
OptionsGraph(kind, expiry_type, strategy) ==
    Graph(kind \o " " \o expiry_type \o " " \o strategy,
          <<Node("s", "start", NoData),
            Node("o", kind, [NoData EXCEPT !.expiryType = expiry_type, !.strategy = strategy]),
            Node("l", "log", NoData), Node("n", "log", NoData)>>,
          <<Edge("s", "o", Absent), Edge("o", "l", Absent), Edge("o", "n", "no")>>)

OptionsKinds == {"optionsOrder", "optionsMultiOrder"}

OptionsGraphs ==
    {OptionsGraph("optionsOrder", expiry_type, Absent) :
        expiry_type \in ExpiryTypes \cup {"weekly", Absent}}
    \cup {OptionsGraph("optionsMultiOrder", expiry_type, strategy) :
             expiry_type \in {"next_week", "next_month", "weekly", Absent},
             strategy \in {"iron_condor", "butterfly", Absent}}

\* The graphs that exercise single handlers.
HandlerGraphs == WaitGraphs \cup ConditionGraphs

\* The graphs whose nodes read or write context.variables.
ContextGraphs ==
    {Echo, UnknownOperation} \cup QuoteGraphs \cup DivideGraphs \cup MathGraphs

\* The bodies a webhook may deliver: JSON objects.
Payloads ==
    {PyDict(<<>>),
     PyDict(<<<<"symbol", PyStr("SBIN")>>, <<"qty", PyInt(5)>>>>),
     PyDict(<<<<"symbol", PyNone>>>>),
     PyDict(<<<<"symbol", PyInt(7)>>,
              <<"order", PyDict(<<<<"side", PyStr("BUY")>>>>)>>>>),
     PyDict(<<<<"order", PyStr("BUY")>>>>)}

-----------------------------------------------------------------------------
(* State.                                                                  *)

VARIABLES
    workflows,          \* table workflows: workflow id -> graph, NoRow for no row
    executions,         \* table workflow_executions: the committed rows, by id
    workflow_locks,     \* _workflow_locks: workflow id -> asyncio.Lock
    now,                \* the wall clock
    pc,                 \* where each invocation of execute_workflow stands
    via,                \* "http" (server event loop) or "scheduler" (worker thread)
    wf,                 \* the invocation's workflow_id
    result,             \* what the invocation returned, or the exception it raised
    exc,                \* the exception on its way to the except clause
    execution,          \* the invocation's WorkflowExecution object
    logs,               \* the invocation's logs list
    condition_results,  \* context.condition_results
    visited_count,      \* visited_count of the invocation's traversal
    stack,              \* the active execute_node_chain frames, outermost first
    trace,              \* history: the nodes dispatched, in dispatch order
    gateway_calls,      \* history: the calls that reached the gateway client
    broadcasts,         \* history: the broadcast_execution_update calls
    activation,         \* table workflows: workflow id -> is_active, schedule_job_id
    jobs,               \* the ids of the jobs the scheduler holds
    reply,              \* the last activate, deactivate or delete call and its answer
    variables,          \* invocation -> context.variables, items in insertion order
    webhook_data,       \* invocation -> the webhook_data it is called with
    rest_quote,         \* what the gateway's get_quotes answers during this run
    probe,              \* the last direct call of a function and what it returned
    sleeps,             \* history: invocation -> its handlers' calls of time.sleep
    app_settings,       \* table app_settings: what its row holds of the gateway
    rest_expiry,        \* what the gateway's get_expiry answers during this run
    calendar,           \* <<year, month>> of datetime.now()
    admin_rows,         \* table app_settings: the admin columns of its rows, by id
    setup_calls         \* the POST /auth/setup requests: where each stands

vars == <<workflows, executions, workflow_locks, now, pc, via, wf, result, exc,
          execution, logs, condition_results, visited_count, stack, trace,
          gateway_calls, broadcasts, activation, jobs, reply, variables, webhook_data,
          rest_quote, probe, sleeps, app_settings, rest_expiry, calendar, admin_rows,
          setup_calls>>

\* The variables of activation and scheduling.
scheduleVars == <<activation, jobs, reply>>

\* The context's variables and what is injected into them.
contextVars == <<variables, webhook_data, rest_quote, app_settings, rest_expiry,
                   calendar>>

\* The variables of the authentication routes.
authVars == <<admin_rows, setup_calls>>

\* The variables of direct calls and of the routes the engine does not touch.
pureVars == <<probe, authVars>>

\* The variables of one traversal.
traversalVars == <<condition_results, visited_count, stack, trace, gateway_calls, sleeps>>

LogEntry(message, level) == [message |-> message, level |-> level]

\* A handler's result: None, or a dict with a status, maybe a condition, and
\* its other items in `data`.
NoResult == [isNone |-> TRUE, status |-> "", hasCond |-> FALSE, cond |-> FALSE, data |-> <<>>]
Result(status) ==
    [isNone |-> FALSE, status |-> status, hasCond |-> FALSE, cond |-> FALSE, data |-> <<>>]
Condition(status, cond) ==
    [isNone |-> FALSE, status |-> status, hasCond |-> TRUE, cond |-> cond, data |-> <<>>]
ResultWith(status, items) ==
    [isNone |-> FALSE, status |-> status, hasCond |-> FALSE, cond |-> FALSE, data |-> items]

\* What execute_workflow returns; status "exception" when it raises instead.
Envelope(status, message, already_running, execution_id) ==
    [status |-> status, message |-> message, already_running |-> already_running,
     execution_id |-> execution_id]
NoEnvelope == Envelope(None, None, FALSE, 0)
Raised(message) == Envelope("exception", message, FALSE, 0)

DepthExceeded == "Maximum node depth (100) exceeded"
VisitsExceeded == "Maximum node visits (500) exceeded"
NoStartNode == "No start node found"
NotConfigured == "OpenAlgo not configured"
InvalidLiteral == "invalid literal for int() with base 10"
CommitFailed == "commit failed"

-----------------------------------------------------------------------------
(* Node handlers (NodeExecutor).  A handler's outcome: the result it       *)
(* returns or the exception it raises, the log entries it appends, the     *)
(* gateway calls it makes, the clock it last read, and the assignments      *)
(* <<name, value>> it makes to context.variables, in order, and the number *)
(* of its calls of time.sleep.                                             *)

OutcomeSetting(res, entries, calls, clock, sets) ==
    [raised |-> FALSE, error |-> None, result |-> res, logs |-> entries,
     calls |-> calls, clock |-> clock, sets |-> sets, sleeps |-> 0]

Outcome(res, entries, calls, clock) == OutcomeSetting(res, entries, calls, clock, <<>>)

Raises(error, entries, calls, clock) ==
    [raised |-> TRUE, error |-> error, result |-> NoResult, logs |-> entries,
     calls |-> calls, clock |-> clock, sets |-> <<>>, sleeps |-> 0]

\* A context that stores nothing.
forget_variable(variables_, name, value) == variables_

\* context.set_variable(name, value)
set_variable(variables_, name, value) == DictSet(variables_, name, value)

RECURSIVE ApplySets(_, _)
ApplySets(variables_, sets) ==
    IF sets = <<>> THEN variables_
    ELSE ApplySets(set_variable(variables_, sets[1][1], sets[1][2]), Tail(sets))

\* The status of the envelope a gateway call returns.
GatewayStatus == {"success", "error"}

\* The level of the log entry written for a gateway result.
ResultLevel(status) == IF status = "success" THEN "info" ELSE "error"

\* The clock readings possible after the reading `clock`.
ClockReadings(clock) == {t \in ClockValues : Seconds(t) >= Seconds(clock)}

execute_place_order(node_data, clock) ==
    {Outcome(Result(status),
             <<LogEntry("Placing order", "info"),
               LogEntry("Order result", ResultLevel(status))>>,
             <<"placeorder">>, clock) : status \in GatewayStatus}

execute_modify_order(node_data, clock) ==
    IF node_data.quantity # Absent /\ node_data.quantity \notin DOMAIN IntLiteral
    THEN \* int(node_data.get("quantity", 1)) raises ValueError
         {Raises(InvalidLiteral, <<LogEntry("Modifying order", "info")>>, <<>>, clock)}
    ELSE {Outcome(Result(status),
                  <<LogEntry("Modifying order", "info"),
                    LogEntry("Modify order result", ResultLevel(status))>>,
                  <<"modifyorder">>, clock) : status \in GatewayStatus}

execute_log(node_data, variables_, clock) ==
    LET message == interpolate(node_data.message, variables_, clock)
        log_level == IF node_data.level = Absent THEN "info" ELSE node_data.level
    IN {Outcome(ResultWith("success", <<<<"message", PyStr(message)>>>>),
                <<LogEntry("[LOG] " \o message, log_level)>>, <<>>, clock)}

execute_time_window(node_data, clock) ==
    LET start_time == parse_time_string(node_data.startTime, 9, 15)
        end_time == parse_time_string(node_data.endTime, 15, 30)
    IN {Outcome(Condition("success",
                          Seconds(start_time) <= Seconds(t) /\ Seconds(t) <= Seconds(end_time)),
                <<LogEntry("Time window check", "info")>>, <<>>, t)
        : t \in ClockReadings(clock)}

\* get_str: the interpolated text, the default for a missing or empty one.
get_str(text, default, variables_, clock) ==
    IF text = <<>> THEN default ELSE interpolate(text, variables_, clock)

\* A key of node_data: whether it is present, and its JSON value, which is a
\* string, given as the segments of its text, or a number or null, given as
\* a value.
Field(present, is_str, value, text) ==
    [present |-> present, is_str |-> is_str, value |-> value, text |-> text]
NoField == Field(FALSE, FALSE, PyNone, <<>>)
TextField(text) == Field(TRUE, TRUE, PyNone, text)
ValueField(value) == Field(TRUE, FALSE, value, <<>>)

\* get_str(node_data, key, default) on any field.
get_str_field(field, default, variables_, clock) ==
    IF ~field.present THEN PyStr(default)
    ELSE IF field.is_str THEN PyStr(get_str(field.text, default, variables_, clock))
    ELSE IF Truthy(field.value) THEN PyStr(Str(field.value))
    ELSE PyStr(default)

\* get_int(node_data, key, default); the fields of the model hold no list
\* and no object.
get_int(field, default, variables_, clock) ==
    IF field.present /\ field.is_str
    THEN LET interpolated == interpolate(field.text, variables_, clock)
         IN IF interpolated \in DOMAIN FloatLiteral
            THEN PyInt(FloatLiteral[interpolated]) ELSE default
    ELSE IF field.present /\ Truthy(field.value) THEN PyInt(field.value.n)
    ELSE default

\* get_float(node_data, key, default)
get_float(field, default, variables_, clock) ==
    IF field.present /\ field.is_str
    THEN LET interpolated == interpolate(field.text, variables_, clock)
         IN IF interpolated \in DOMAIN FloatLiteral
            THEN PyFloat(FloatLiteral[interpolated]) ELSE default
    ELSE IF field.present /\ Truthy(field.value) THEN PyFloat(field.value.n)
    ELSE default

\* str.strip() for the variable names of the model.
Strip(name) ==
    CASE name = " px " -> "px"
      [] name = "  " -> ""
      [] OTHER -> name

\* The dict a handler returns, as a value.
ResultDict(res) == PyDict(<<<<"status", PyStr(res.status)>>>> \o res.data)

\* store_output: the assignment it makes and the entry it logs.
store_output(node_data, res) ==
    LET output_var == node_data.outputVariable
    IN IF output_var # Absent /\ output_var # "" /\ Strip(output_var) # ""
       THEN [sets |-> <<<<Strip(output_var), ResultDict(res)>>>>,
             logs |-> <<LogEntry("Stored result in variable: " \o output_var, "info")>>]
       ELSE [sets |-> <<>>, logs |-> <<>>]

\* The answers of client.get_quotes: an envelope with the quote, an envelope
\* without data, or an exception.
Quote(ltp) ==
    [raises |-> FALSE, error |-> "",
     items |-> <<<<"status", PyStr("success")>>, <<"data", PyDict(<<<<"ltp", ltp>>>>)>>>>]
QuoteError ==
    [raises |-> FALSE, error |-> "",
     items |-> <<<<"status", PyStr("error")>>, <<"message", PyStr("Invalid symbol")>>>>]
QuoteRaises == [raises |-> TRUE, error |-> "Connection refused", items |-> <<>>]
RestQuotes == {Quote(PyInt(101)), Quote(PyInt(250)), QuoteError, QuoteRaises}

\* The LTP of the first matching message of the stream, when one arrives.
StreamLtps == {PyInt(100)}

\* dict.get(key, default)
GetOr(items, key, default) ==
    IF \E k \in DOMAIN items : items[k][1] = key THEN DictGet(items, key) ELSE default

execute_subscribe_ltp(node_data, variables_, quote, clock) ==
    LET symbol == get_str(node_data.symbol, "", variables_, clock)
        exchange == "NSE"
        output_var == IF node_data.outputVariable = Absent THEN "ltp"
                      ELSE node_data.outputVariable
        common == <<<<"type", PyStr("ltp")>>, <<"symbol", PyStr(symbol)>>,
                    <<"exchange", PyStr(exchange)>>>>
        subscribing == LogEntry("Subscribing to LTP stream: " \o symbol
                                \o " (" \o exchange \o ")", "info")
        connecting == LogEntry("Connecting to WebSocket server...", "info")
        Finish(res, entries, calls, sets) ==
            LET stored == store_output(node_data, res)
            IN OutcomeSetting(res, entries \o stored.logs, calls, clock, sets \o stored.sets)
        Failed(e, entries, calls) ==
            Finish(ResultWith("error", common \o <<<<"error", PyStr(e)>>>>),
                   Append(entries, LogEntry("Failed to get LTP: " \o e, "error")), calls, <<>>)
        Streamed(ltp, entries) ==
            Finish(ResultWith("success",
                              common \o <<<<"ltp", ltp>>,
                                          <<"data", PyDict(<<<<"symbol", PyStr(symbol)>>,
                                                             <<"exchange", PyStr(exchange)>>,
                                                             <<"ltp", ltp>>>>)>>>>),
                   Append(entries, LogEntry("LTP for " \o symbol \o ": " \o Str(ltp)
                                            \o " (via WebSocket)", "info")),
                   <<"ws_subscribe_ltp">>, <<<<output_var, ltp>>>>)
        Fallback(entries) ==
            LET warned == Append(entries, LogEntry("WebSocket timeout, using API fallback",
                                                   "warning"))
                data == GetOr(quote.items, "data", PyDict(<<>>))
                ltp == GetOr(data.d, "ltp", PyInt(0))
            IN IF quote.raises
               THEN Failed(quote.error, warned, <<"ws_subscribe_ltp", "quotes">>)
               ELSE Finish(ResultWith("success",
                                      common \o <<<<"ltp", ltp>>, <<"data", data>>,
                                                  <<"fallback", PyBool(TRUE)>>>>),
                           Append(warned, LogEntry("LTP for " \o symbol \o ": " \o Str(ltp)
                                                   \o " (via API fallback)", "info")),
                           <<"ws_subscribe_ltp", "quotes">>, <<<<output_var, ltp>>>>)
    IN {Failed("Failed to connect to WebSocket server", <<subscribing, connecting>>, <<>>)}
       \cup {Streamed(ltp, entries) :
                ltp \in StreamLtps, entries \in {<<subscribing>>, <<subscribing, connecting>>}}
       \cup {Fallback(entries) : entries \in {<<subscribing>>, <<subscribing, connecting>>}}

\* float(v): the number, or the ValueError or TypeError it raises.
ToFloat(v) ==
    CASE v.t \in {"int", "float", "bool"} -> Num(v.n)
      [] v.t = "str" ->
            IF v.s \in DOMAIN FloatLiteral THEN Num(FloatLiteral[v.s])
            ELSE EvalError("could not convert string to float: '" \o v.s \o "'")
      [] OTHER -> EvalError("float() argument must be a string or a real number")

\* The operations execute_variable knows.
VariableOperations ==
    {"set", "get", "add", "subtract", "multiply", "divide", "increment", "decrement",
     "append", "parse_json", "stringify"}

\* if div_value == 0
DivisionByZero(div_value) == div_value = 0

\* execute_variable, operations set and divide.  The strings the model sets
\* do not begin with { or [, so none is parsed as JSON.
execute_variable(node_data, variables_, clock) ==
    LET var_name == IF node_data.variableName = Absent THEN "" ELSE node_data.variableName
        operation == IF node_data.operation = Absent THEN "set" ELSE node_data.operation
        var_value == IF node_data.value # PyNone THEN node_data.value
                     ELSE PyStr(interpolate(node_data.valueText, variables_, clock))
        Failure(message, entry) ==
            Outcome(ResultWith("error", <<<<"message", PyStr(message)>>>>),
                    <<LogEntry(entry, "error")>>, <<>>, clock)
        Success(value, entry) ==
            OutcomeSetting(ResultWith("success",
                                      <<<<"variable", PyStr(var_name)>>, <<"value", value>>,
                                        <<"operation", PyStr(operation)>>>>),
                           <<LogEntry(entry, "info")>>, <<>>, clock, <<<<var_name, value>>>>)
        current == GetOr(variables_, var_name, PyInt(0))
        current_num == IF Truthy(current) THEN ToFloat(current) ELSE Num(0)
        div_value == IF Truthy(var_value) THEN ToFloat(var_value) ELSE Num(1)
    IN CASE operation = "set" ->
               {Success(var_value, "Set variable " \o var_name \o " = " \o Str(var_value))}
         [] operation = "divide" ->
               {IF ~current_num.ok
                THEN Failure(current_num.error, "Divide operation failed: " \o current_num.error)
                ELSE IF ~div_value.ok
                THEN Failure(div_value.error, "Divide operation failed: " \o div_value.error)
                ELSE IF DivisionByZero(div_value.n)
                THEN Failure("Division by zero", "Division by zero error")
                ELSE LET quotient == PyFloat(ApplyBinary("Div", current_num.n, div_value.n).n)
                     IN Success(quotient,
                                "Divided " \o var_name \o " by "
                                \o (IF Truthy(var_value) THEN Str(PyFloat(div_value.n))
                                    ELSE "1")
                                \o ": " \o Str(quotient))}
         [] operation \notin VariableOperations ->
               {Outcome(ResultWith("error",
                                   <<<<"message", PyStr("Unknown operation: " \o operation)>>>>),
                        <<LogEntry("Unknown variable operation: " \o operation, "warning")>>,
                        <<>>, clock)}

\* The text as it is written, placeholders not filled in.
RECURSIVE RawText(_)
RawText(text) == IF text = <<>> THEN "" ELSE text[1].text \o RawText(Tail(text))

execute_math_expression(node_data, variables_, clock) ==
    LET expression == node_data.expression
        output_var == IF node_data.outputVariable = Absent THEN "result"
                      ELSE node_data.outputVariable
        interpolated == interpolate(expression.text, variables_, clock)
        value == safe_eval_math(Fill(expression.tree, variables_))
        entries == <<LogEntry("Evaluating: " \o RawText(expression.text), "info"),
                     LogEntry("Interpolated: " \o interpolated, "info")>>
    IN IF expression.text = <<>>
       THEN {Outcome(ResultWith("error", <<<<"message", PyStr("No expression provided")>>>>),
                     <<LogEntry("No expression provided", "error")>>, <<>>, clock)}
       ELSE IF value.ok
       THEN {OutcomeSetting(
                ResultWith("success",
                           <<<<"expression", PyStr(RawText(expression.text))>>,
                             <<"interpolated", PyStr(interpolated)>>,
                             <<"result", PyFloat(value.n)>>,
                             <<"outputVariable", PyStr(output_var)>>>>),
                Append(entries, LogEntry("Result: " \o output_var \o " = "
                                         \o Str(PyFloat(value.n)), "info")),
                <<>>, clock, <<<<output_var, PyFloat(value.n)>>>>)}
       ELSE {Outcome(ResultWith("error", <<<<"message", PyStr(value.error)>>>>),
                     Append(entries, LogEntry("Math expression failed: " \o value.error,
                                              "error")),
                     <<>>, clock)}

\* A test of the target that lets the very second of the target wait.
TargetStrictlyPassed(now_seconds, target_seconds) == now_seconds > target_seconds

\* if now_seconds >= target_seconds
TargetPassed(now_seconds, target_seconds) == now_seconds >= target_seconds

\* strftime("%H:%M:%S")
ClockText(t) == TwoDigits(t[1]) \o ":" \o TwoDigits(t[2]) \o ":" \o TwoDigits(t[3])

\* The time string as it is written; "09:30" for a node without targetTime.
RECURSIVE TimeText(_)
TimeText(parts) ==
    IF parts = <<>> THEN "09:30"
    ELSE IF Len(parts) = 1 THEN parts[1]
    ELSE parts[1] \o ":" \o TimeText(Tail(parts))

\* How often the loop of execute_wait_until may call time.sleep before the
\* clock shows the target: not at all, once, or more often.
SleepCounts == {0, 1, 2}

\* execute_wait_until.  The loop is followed to its end: the clock reading
\* that ends it is one at or after the target.
execute_wait_until(node_data, clock) ==
    LET target_time_str == TimeText(node_data.targetTime)
        target_time == parse_time_string(node_data.targetTime, 9, 30)
        target_seconds == Seconds(target_time)
        Returned(message, t, waited) ==
            ResultWith("success",
                       <<<<"message", PyStr(message)>>, <<"current_time", PyStr(ClockText(t))>>,
                         <<"target_time", PyStr(target_time_str)>>,
                         <<"waited", PyBool(waited)>>>>)
    IN IF node_data.checkIntervalMs # Absent /\ node_data.checkIntervalMs \notin DOMAIN IntLiteral
       THEN \* int(node_data.get("checkIntervalMs", 1000)) raises ValueError
            {Raises(InvalidLiteral, <<>>, <<>>, clock)}
       ELSE {Outcome(Returned("Target time " \o target_time_str \o " already passed", t, FALSE),
                     <<LogEntry("Wait Until: Target time " \o target_time_str
                                \o " has already passed (current: " \o ClockText(t)
                                \o "), continuing...", "info")>>,
                     <<>>, t)
                : t \in {r \in ClockReadings(clock) : TargetPassed(Seconds(r), target_seconds)}}
            \cup
            {[Outcome(Returned("Waited until " \o target_time_str, later, TRUE),
                      <<LogEntry("Wait Until: Waiting for " \o target_time_str
                                 \o " (current: " \o ClockText(t) \o ", ~"
                                 \o IntStr(target_seconds - Seconds(t)) \o "s remaining)",
                                 "info"),
                        LogEntry("Wait Until: Target time " \o target_time_str \o " reached!",
                                 "info")>>,
                      <<>>, later) EXCEPT !.sleeps = n]
                : t \in {r \in ClockReadings(clock) : ~TargetPassed(Seconds(r), target_seconds)},
                  later \in {r \in ClockReadings(clock) : Seconds(r) >= target_seconds},
                  n \in SleepCounts}

\* _evaluate_condition: operators.get(operator, False)
evaluate_condition(value, operator, threshold) ==
    CASE operator = "gt" -> value > threshold
      [] operator = "gte" -> value >= threshold
      [] operator = "lt" -> value < threshold
      [] operator = "lte" -> value <= threshold
      [] operator = "eq" -> value = threshold
      [] operator = "neq" -> value # threshold
      [] OTHER -> FALSE

\* get_str(node_data, "operator", "gt") of an operator without placeholders.
OperatorOf(node_data) ==
    IF node_data.operator \in {Absent, ""} THEN "gt" ELSE node_data.operator

\* get_int / get_float (node_data, "threshold", 0) of a threshold given as a number.
ThresholdOf(node_data) ==
    IF Truthy(node_data.threshold) THEN node_data.threshold.n ELSE 0

\* The quantities get_open_position and the cash get_funds may report.
PositionQuantities == {0, 50}
AvailableCash == {0, 1000}

\* A condition result with the value that was compared.
Checked(condition_met, key, value) ==
    [Condition("success", condition_met) EXCEPT !.data = <<<<key, value>>>>]

execute_position_check(node_data, variables_, clock) ==
    {Outcome(Checked(evaluate_condition(quantity, OperatorOf(node_data), ThresholdOf(node_data)),
                     "quantity", PyInt(quantity)),
             <<LogEntry("Checking position for: "
                        \o get_str(node_data.symbol, "", variables_, clock), "info"),
               LogEntry("Position check", "info")>>,
             <<"openposition">>, clock) : quantity \in PositionQuantities}

execute_fund_check(node_data, clock) ==
    {Outcome(Checked(evaluate_condition(available, OperatorOf(node_data), ThresholdOf(node_data)),
                     "available", PyFloat(available)),
             <<LogEntry("Checking funds", "info"), LogEntry("Fund check", "info")>>,
             <<"funds">>, clock) : available \in AvailableCash}

execute_price_condition(node_data, variables_, quote, clock) ==
    LET checking == LogEntry("Checking price condition for: "
                             \o get_str(node_data.symbol, "", variables_, clock), "info")
        ltp == GetOr(GetOr(quote.items, "data", PyDict(<<>>)).d, "ltp", PyInt(0)).n
    IN IF quote.raises
       THEN {Raises(quote.error, <<checking>>, <<"quotes">>, clock)}
       ELSE {Outcome(Checked(evaluate_condition(ltp, OperatorOf(node_data),
                                                ThresholdOf(node_data)),
                             "ltp", PyFloat(ltp)),
                     <<checking, LogEntry("Price check", "info")>>, <<"quotes">>, clock)}

\* A gate that looks at its first input only.
FirstOnly(input_results) == input_results[1]

\* all(input_results)
All(input_results) == \A k \in 1..Len(input_results) : input_results[k]

execute_and_gate(node_data, input_results, clock) ==
    IF input_results = <<>>
    THEN {Outcome(Condition("success", FALSE),
                  <<LogEntry("AND Gate: No input conditions found", "warning")>>, <<>>, clock)}
    ELSE {Outcome(Condition("success", All(input_results)),
                  <<LogEntry("AND Gate", "info")>>, <<>>, clock)}

\* any(input_results)
AnyTrue(input_results) == \E k \in 1..Len(input_results) : input_results[k]

execute_or_gate(node_data, input_results, clock) ==
    IF input_results = <<>>
    THEN {Outcome(Condition("success", FALSE),
                  <<LogEntry("OR Gate: No input conditions found", "warning")>>, <<>>, clock)}
    ELSE {Outcome(Condition("success", AnyTrue(input_results)),
                  <<LogEntry("OR Gate", "info")>>, <<>>, clock)}

execute_not_gate(node_data, input_results, clock) ==
    IF input_results = <<>>
    THEN {Outcome(Condition("success", TRUE),
                  <<LogEntry("NOT Gate: No input condition found", "warning")>>, <<>>, clock)}
    ELSE {Outcome(Condition("success", ~input_results[1]),
                  <<LogEntry("NOT Gate", "info")>>, <<>>, clock)}

\* The condition results of the sources of the node's incoming edges, those
\* that are not None, in the order of the incoming edges.
InputResults(edges, node_id, results) ==
    LET incoming_edges == IncomingEdgeMapGet(edges, node_id)
        known == SelectSeq(incoming_edges, LAMBDA k : edges[k].source \in DOMAIN results)
    IN [j \in 1..Len(known) |-> results[edges[known[j]].source]]

-----------------------------------------------------------------------------
(* Expiry resolution.  An expiry string is the sequence of its tokens, runs *)
(* of digits, runs of letters and single dashes: "30-DEC-25" is            *)
(* <<"30", "-", "DEC", "-", "25">>.                                         *)

RECURSIVE Joined(_)
Joined(tokens) == IF tokens = <<>> THEN "" ELSE tokens[1] \o Joined(Tail(tokens))

\* str.upper() of the tokens in use.
Upper(token) ==
    CASE token \in {"Jan", "jan"} -> "JAN"
      [] token \in {"Dec", "dec"} -> "DEC"
      [] OTHER -> token

\* What strptime reads with %d and %y: one or two digits.
TwoDigit ==
    [x \in {"06", "25", "27", "30", "26"} |->
        CASE x = "06" -> 6 [] x = "25" -> 25 [] x = "27" -> 27 [] x = "30" -> 30
          [] x = "26" -> 26]

\* What strptime reads with %b.
MonthNumber == [x \in {"JAN", "DEC"} |-> IF x = "JAN" THEN 1 ELSE 12]

\* The century strptime gives a two-digit year.
FullYear(yy) == IF yy < 69 THEN 2000 + yy ELSE 1900 + yy

NoDate == <<0, 0, 0>>

\* datetime.strptime(exp_str.upper(), "%d-%b-%y") and, failing that, with
\* "%d%b%y": <<year, month, day>>, NoDate when neither format matches.
parse_expiry(exp_str) ==
    LET upper == [k \in DOMAIN exp_str |-> Upper(exp_str[k])]
        Read(day, month, year) ==
            IF day \in DOMAIN TwoDigit /\ month \in DOMAIN MonthNumber
               /\ year \in DOMAIN TwoDigit
            THEN <<FullYear(TwoDigit[year]), MonthNumber[month], TwoDigit[day]>>
            ELSE NoDate
    IN IF Len(upper) = 5 /\ upper[2] = "-" /\ upper[4] = "-"
       THEN Read(upper[1], upper[3], upper[5])
       ELSE IF Len(upper) = 3 THEN Read(upper[1], upper[2], upper[3])
       ELSE NoDate

\* The order of two datetimes.
Before(d, e) ==
    \/ d[1] < e[1]
    \/ d[1] = e[1] /\ d[2] < e[2]
    \/ d[1] = e[1] /\ d[2] = e[2] /\ d[3] < e[3]

\* list.sort(key=lambda x: x[1]) seen from one element: where the stable
\* sort puts the element at position k of pairs.
RankOf(pairs, k) ==
    Cardinality({j \in DOMAIN pairs :
                    \/ Before(pairs[j][2], pairs[k][2])
                    \/ pairs[j][2] = pairs[k][2] /\ j <= k})

\* A sort that leaves the list as the gateway sent it.
Unsorted(pairs) == pairs

\* valid_expiries.sort(key=lambda x: x[1])
SortByDate(pairs) ==
    [r \in 1..Len(pairs) |-> pairs[CHOOSE k \in DOMAIN pairs : RankOf(pairs, k) = r]]

\* _format_expiry_for_api: the dashes removed, the rest in upper case.
format_expiry_for_api(expiry_str) ==
    LET kept == SelectSeq(expiry_str, LAMBDA token : token # "-")
    IN Joined([k \in DOMAIN kept |-> Upper(kept[k])])

\* The answers of the gateway's get_expiry: an envelope with a status and a
\* list of expiry strings, or an exception.
ExpiryResponse(status, data) == [raises |-> FALSE, status |-> status, data |-> data]
ExpiryRaises == [raises |-> TRUE, status |-> "", data |-> <<>>]

\* The last entry of the month, None when the month has none.
LastOfMonth(valid_expiries, month, year) ==
    LET hits == SelectSeq(valid_expiries,
                          LAMBDA pair : pair[2][2] = month /\ pair[2][1] = year)
    IN IF hits = <<>> THEN None ELSE format_expiry_for_api(hits[Len(hits)][1])

\* _resolve_expiry_date at the calendar month <<year, month>>: the expiry
\* date, None when there is none, and the entries it logs.
resolve_expiry_date(response, expiry_type, calendar_) ==
    LET Failed(message) == [date |-> None, logs |-> <<LogEntry(message, "error")>>]
        expiry_list == response.data
        parsed == [k \in DOMAIN expiry_list |-> <<expiry_list[k], parse_expiry(expiry_list[k])>>]
        warnings == [k \in DOMAIN SelectSeq(parsed, LAMBDA pair : pair[2] = NoDate) |->
                        LogEntry("Warning: Could not parse expiry date", "warning")]
        valid_expiries == SortByDate(SelectSeq(parsed, LAMBDA pair : pair[2] # NoDate))
        sorted_expiries == [k \in DOMAIN valid_expiries |-> valid_expiries[k][1]]
        current_year == calendar_[1]
        current_month == calendar_[2]
        next_month == IF current_month = 12 THEN 1 ELSE current_month + 1
        next_year == IF current_month = 12 THEN current_year + 1 ELSE current_year
        Found(date, message) ==
            IF date = None
            THEN [date |-> None, logs |-> warnings \o <<LogEntry(message, "error")>>]
            ELSE [date |-> date, logs |-> warnings]
    IN IF response.raises THEN Failed("Error resolving expiry")
       ELSE IF response.status # "success" THEN Failed("Failed to fetch expiry")
       ELSE IF expiry_list = <<>> THEN Failed("No expiry dates found")
       ELSE IF valid_expiries = <<>>
       THEN Found(None, "No valid expiry dates found")
       ELSE CASE expiry_type = "current_week" ->
                    Found(format_expiry_for_api(sorted_expiries[1]), "")
              [] expiry_type = "next_week" ->
                    Found(IF Len(sorted_expiries) > 1
                          THEN format_expiry_for_api(sorted_expiries[2]) ELSE None,
                          "No next week expiry found")
              [] expiry_type = "current_month" ->
                    Found(LastOfMonth(valid_expiries, current_month, current_year),
                          "No current month expiry found")
              [] expiry_type = "next_month" ->
                    Found(LastOfMonth(valid_expiries, next_month, next_year),
                          "No next month expiry found")
              [] OTHER -> Found(None, "Unknown expiry type: " \o expiry_type)

\* The legs of a strategy, <<>> for a strategy that is not known.
build_strategy_legs(strategy, action) ==
    LET Leg(offset, option_type, leg_action) ==
            [offset |-> offset, option_type |-> option_type, action |-> leg_action]
        first == IF action = "SELL" THEN "SELL" ELSE "BUY"
        second == IF action = "SELL" THEN "BUY" ELSE "SELL"
    IN CASE strategy = "straddle" -> <<Leg("ATM", "CE", action), Leg("ATM", "PE", action)>>
         [] strategy = "strangle" -> <<Leg("OTM2", "CE", action), Leg("OTM2", "PE", action)>>
         [] strategy = "iron_condor" ->
               <<Leg("OTM5", "CE", first), Leg("OTM5", "PE", first),
                 Leg("OTM10", "CE", second), Leg("OTM10", "PE", second)>>
         [] strategy = "iron_butterfly" ->
               <<Leg("ATM", "CE", first), Leg("ATM", "PE", first),
                 Leg("OTM3", "CE", second), Leg("OTM3", "PE", second)>>
         [] strategy = "bull_call_spread" ->
               <<Leg("ATM", "CE", "BUY"), Leg("OTM3", "CE", "SELL")>>
         [] strategy = "bear_put_spread" ->
               <<Leg("ATM", "PE", "BUY"), Leg("OTM3", "PE", "SELL")>>
         [] strategy = "bull_put_spread" ->
               <<Leg("ATM", "PE", "SELL"), Leg("OTM3", "PE", "BUY")>>
         [] strategy = "bear_call_spread" ->
               <<Leg("ATM", "CE", "SELL"), Leg("OTM3", "CE", "BUY")>>
         [] OTHER -> <<>>

ExpiryTypeOf(node_data) ==
    IF node_data.expiryType = Absent THEN "current_week" ELSE node_data.expiryType

\* The result of a handler that found no expiry date.
Unresolved(expiry_type) ==
    ResultWith("error", <<<<"message", PyStr("Could not resolve expiry for " \o expiry_type)>>>>)

\* A handler that places its order whether the expiry resolved or not.
OrderAnyway(resolved) == FALSE

\* if not expiry_date
NoExpiry(resolved) == resolved.date = None

execute_options_order(node_data, expiry, calendar_, clock) ==
    LET expiry_type == ExpiryTypeOf(node_data)
        resolved == resolve_expiry_date(expiry, expiry_type, calendar_)
        date == IF resolved.date = None THEN "None" ELSE resolved.date
        entries == <<LogEntry("Placing options order", "info")>> \o resolved.logs
    IN IF NoExpiry(resolved)
       THEN {Outcome(Unresolved(expiry_type), entries, <<"expiry">>, clock)}
       ELSE {LET res == Result(status)
                 stored == store_output(node_data, res)
             IN OutcomeSetting(res,
                    entries \o <<LogEntry("Resolved expiry: " \o expiry_type \o " -> " \o date,
                                          "info"),
                                 LogEntry("Options order result", ResultLevel(status))>>
                            \o stored.logs,
                    <<"expiry", "optionsorder">>, clock, stored.sets) :
             status \in GatewayStatus}

execute_options_multi_order(node_data, expiry, calendar_, clock) ==
    LET expiry_type == ExpiryTypeOf(node_data)
        strategy == IF node_data.strategy = Absent THEN "straddle" ELSE node_data.strategy
        action == IF node_data.action = Absent THEN "SELL" ELSE node_data.action
        resolved == resolve_expiry_date(expiry, expiry_type, calendar_)
        date == IF resolved.date = None THEN "None" ELSE resolved.date
        legs == build_strategy_legs(strategy, action)
        entries == <<LogEntry("Placing multi-leg options order", "info")>> \o resolved.logs
        resolution == LogEntry("Resolved expiry: " \o expiry_type \o " -> " \o date, "info")
    IN IF NoExpiry(resolved)
       THEN {Outcome(Unresolved(expiry_type), entries, <<"expiry">>, clock)}
       ELSE IF legs = <<>>
       THEN {Outcome(ResultWith("error",
                                <<<<"message", PyStr("Unknown strategy: " \o strategy)>>>>),
                     entries \o <<resolution>>, <<"expiry">>, clock)}
       ELSE {LET res == Result(status)
                 stored == store_output(node_data, res)
             IN OutcomeSetting(res,
                    entries \o <<resolution, LogEntry("Strategy legs", "info"),
                                 LogEntry("Multi-leg order result", ResultLevel(status))>>
                            \o stored.logs,
                    <<"expiry", "optionsmultiorder">>, clock, stored.sets) :
             status \in GatewayStatus}

\* The kinds the dispatch of execute_node_chain has a branch for.
KnownKinds ==
    {"start", "placeOrder", "smartOrder", "optionsOrder", "optionsMultiOrder", "basketOrder",
     "splitOrder", "modifyOrder", "cancelOrder", "cancelAllOrders", "closePositions",
     "getQuote", "multiQuotes", "getDepth", "getOrderStatus", "openPosition", "history",
     "expiry", "symbol", "optionSymbol", "orderBook", "tradeBook", "positionBook",
     "syntheticFuture", "optionChain", "holidays", "timings", "subscribeLtp",
     "subscribeQuote", "subscribeDepth", "unsubscribe", "holdings", "funds", "margin",
     "telegramAlert", "httpRequest", "delay", "waitUntil", "log", "variable",
     "mathExpression", "positionCheck", "fundCheck", "priceCondition", "timeWindow",
     "timeCondition", "priceAlert", "group", "andGate", "orGate", "notGate"}

\* The dispatch on node_type.
RunHandler(graph, node, results, variables_, quote, expiry, calendar_, clock) ==
    CASE node.type = "start" ->
            {Outcome(NoResult, <<LogEntry("Workflow started", "info")>>, <<>>, clock)}
      [] node.type = "placeOrder" -> execute_place_order(node.data, clock)
      [] node.type = "modifyOrder" -> execute_modify_order(node.data, clock)
      [] node.type = "optionsOrder" ->
            execute_options_order(node.data, expiry, calendar_, clock)
      [] node.type = "optionsMultiOrder" ->
            execute_options_multi_order(node.data, expiry, calendar_, clock)
      [] node.type = "log" -> execute_log(node.data, variables_, clock)
      [] node.type = "timeWindow" -> execute_time_window(node.data, clock)
      [] node.type = "waitUntil" -> execute_wait_until(node.data, clock)
      [] node.type = "positionCheck" -> execute_position_check(node.data, variables_, clock)
      [] node.type = "fundCheck" -> execute_fund_check(node.data, clock)
      [] node.type = "priceCondition" ->
            execute_price_condition(node.data, variables_, quote, clock)
      [] node.type = "variable" -> execute_variable(node.data, variables_, clock)
      [] node.type = "mathExpression" ->
            execute_math_expression(node.data, variables_, clock)
      [] node.type = "subscribeLtp" ->
            execute_subscribe_ltp(node.data, variables_, quote, clock)
      [] node.type = "group" -> {Outcome(NoResult, <<>>, <<>>, clock)}
      [] node.type = "andGate" ->
            execute_and_gate(node.data, InputResults(graph.edges, node.id, results), clock)
      [] node.type = "orGate" ->
            execute_or_gate(node.data, InputResults(graph.edges, node.id, results), clock)
      [] node.type = "notGate" ->
            execute_not_gate(node.data, InputResults(graph.edges, node.id, results), clock)
      [] OTHER ->
            {Outcome(NoResult, <<LogEntry("Unknown node type", "warning")>>, <<>>, clock)}

-----------------------------------------------------------------------------
(* The traverser execute_node_chain.                                       *)

RECURSIVE SumOver(_, _)
SumOver(f, S) ==
    IF S = {} THEN 0
    ELSE LET x == CHOOSE y \in S : TRUE IN f[x] + SumOver(f, S \ {x})

\* sum(visited_count.values())
TotalVisits(counts) == SumOver(counts, DOMAIN counts)

\* visited_count.get(node_id, 0)
VisitsOf(counts, node_id) == IF node_id \in DOMAIN counts THEN counts[node_id] ELSE 0

\* A traverser without a depth limit.
DepthLimitNever(depth) == FALSE

DepthLimitExceeded(depth) == depth > MAX_NODE_DEPTH

\* A visit limit that is tested with > instead of >=.
VisitLimitPassed(total_visits) == total_visits > MAX_NODE_VISITS

VisitLimitReached(total_visits) == total_visits >= MAX_NODE_VISITS

\* A filter that keeps every edge.
FollowEveryEdge(source_handle, condition_met) == TRUE

\* Whether an edge with this sourceHandle is kept for this condition.
FollowEdge(source_handle, condition_met) ==
    \/ condition_met /\ source_handle = "yes"
    \/ ~condition_met /\ source_handle = "no"
    \/ source_handle \notin {"yes", "no"}

\* A traverser that filters the outgoing edges after every node.
EdgesAlwaysFiltered(edges, node_id, res) ==
    SelectSeq(EdgeMapGet(edges, node_id),
              LAMBDA k : FollowEdge(SourceHandle(edges[k]), res.cond))

\* A traverser that follows one edge out of a node and no second one, so
\* that no node is reached twice from one node.
FirstEdgeOnly(edges, node_id, res) ==
    LET outgoing == EdgeMapGet(edges, node_id)
    IN IF outgoing = <<>> THEN <<>> ELSE <<Head(outgoing)>>

\* edges_to_follow: the node's outgoing edges, filtered when the result
\* carries a condition.
EdgesToFollow(edges, node_id, res) ==
    LET outgoing == EdgeMapGet(edges, node_id)
    IN IF ~res.isNone /\ res.hasCond
       THEN SelectSeq(outgoing, LAMBDA k : FollowEdge(SourceHandle(edges[k]), res.cond))
       ELSE outgoing

\* A loop that takes the last remaining edge first.
LastEdge(todo) == todo[Len(todo)]

\* The edge of a frame's loop that is taken next.
NextEdge(todo) == Head(todo)

\* Frames whose loop over edges_to_follow is exhausted return to their caller.
RECURSIVE Unwind(_)
Unwind(frames) ==
    IF frames = <<>> THEN <<>>
    ELSE IF frames[Len(frames)].todo = <<>> THEN Unwind(SubSeq(frames, 1, Len(frames) - 1))
    ELSE frames

Frame(visit, node_id, todo) == [visit |-> visit, node |-> node_id, todo |-> todo]

Visit(node_id, parent, edge, depth, res) ==
    [node |-> node_id, parent |-> parent, edge |-> edge, depth |-> depth, result |-> res]

\* An exception leaves execute_node_chain: every frame is unwound and the
\* except clause of execute_workflow is next.
RaiseIn(i, message) ==
    /\ pc' = [pc EXCEPT ![i] = "failing"]
    /\ exc' = [exc EXCEPT ![i] = message]
    /\ stack' = [stack EXCEPT ![i] = <<>>]

\* The traversal goes on with these frames, or has returned to execute_workflow.
Continue(i, frames) ==
    /\ stack' = [stack EXCEPT ![i] = Unwind(frames)]
    /\ pc' = [pc EXCEPT ![i] = IF Unwind(frames) = <<>> THEN "completing" ELSE "traverse"]
    /\ UNCHANGED exc

\* One call execute_node_chain(node_id, ..., depth) made from the frames
\* `callers`, up to its own first recursive call.
ExecuteNodeChain(i, graph, node_id, depth, parent, edge, callers) ==
    IF DepthLimitExceeded(depth)
    THEN /\ RaiseIn(i, DepthExceeded)
         /\ UNCHANGED <<now, logs, condition_results, visited_count, trace,
                        gateway_calls, broadcasts, variables, sleeps>>
    ELSE IF VisitLimitReached(TotalVisits(visited_count[i]))
    THEN /\ RaiseIn(i, VisitsExceeded)
         /\ UNCHANGED <<now, logs, condition_results, visited_count, trace,
                        gateway_calls, broadcasts, variables, sleeps>>
    ELSE
      LET counts == (node_id :> (VisitsOf(visited_count[i], node_id) + 1)) @@ visited_count[i]
          warning == IF counts[node_id] > WarnAfterVisits
                     THEN <<LogEntry("Warning: node visited many times", "warning")>>
                     ELSE <<>>
          n == FindNode(graph.nodes, node_id)
      IN /\ visited_count' = [visited_count EXCEPT ![i] = counts]
         /\ IF n = 0
            THEN /\ Continue(i, callers)
                 /\ logs' = [logs EXCEPT ![i] = @ \o warning]
                 /\ UNCHANGED <<now, condition_results, trace, gateway_calls, broadcasts,
                                variables, sleeps>>
            ELSE \E out \in RunHandler(graph, graph.nodes[n], condition_results[i], variables[i],
                                            rest_quote, rest_expiry, calendar, now) :
                 LET node == graph.nodes[n]
                     visit == Len(trace[i]) + 1
                     node_label == IF node.data.label # Absent THEN node.data.label ELSE node.type
                 IN /\ now' = out.clock
                    /\ logs' = [logs EXCEPT ![i] = @ \o warning \o out.logs]
                    /\ gateway_calls' = [gateway_calls EXCEPT ![i] = @ \o out.calls]
                    /\ variables' = [variables EXCEPT ![i] = ApplySets(@, out.sets)]
                    /\ sleeps' = [sleeps EXCEPT ![i] = @ + out.sleeps]
                    /\ trace' = [trace EXCEPT ![i] =
                                   Append(@, Visit(node_id, parent, edge, depth, out.result))]
                    /\ IF out.raised
                       THEN /\ RaiseIn(i, out.error)
                            /\ UNCHANGED <<condition_results, broadcasts>>
                       ELSE /\ broadcasts' =
                                 [broadcasts EXCEPT ![i] =
                                    IF node.type # "start"
                                    THEN Append(@, [status |-> "node_executed",
                                                    message |-> "Executed: " \o node_label])
                                    ELSE @]
                            /\ condition_results' =
                                 [condition_results EXCEPT ![i] =
                                    IF out.result.hasCond
                                    THEN (node_id :> out.result.cond) @@ @
                                    ELSE @]
                            /\ Continue(i, Append(callers,
                                   Frame(visit, node_id,
                                         EdgesToFollow(graph.edges, node_id, out.result))))

-----------------------------------------------------------------------------
(* The per-workflow lock: an asyncio.Lock kept in _workflow_locks.  The    *)
(* lock is not thread-safe: its test of _locked and its assignment to      *)
(* _locked are separate steps of the calling thread.                       *)

\* The event loop an invocation runs on: the server's loop for an HTTP call,
\* a new loop of its own for a scheduler worker (execute_workflow_sync).
ServerLoop == 0
LoopOf(i, how) == IF how = "http" THEN ServerLoop ELSE i
Unbound == -1

\* No entry in _workflow_locks yet.  `made` counts the Lock objects that
\* were constructed for the id: the entry is the last of them.
NoLock ==
    [exists |-> FALSE, locked |-> FALSE, waiters |-> <<>>, woken |-> {}, loop |-> Unbound,
     made |-> 0]

NewLock == [NoLock EXCEPT !.exists = TRUE, !.made = 1]

\* A table that constructs a Lock on every call and stores it over the
\* entry.
lock_per_call(locks, workflow_id) ==
    [locks EXCEPT ![workflow_id] = [NewLock EXCEPT !.made = locks[workflow_id].made + 1]]

\* get_workflow_lock: the entry of workflow_id, created when missing, under
\* _workflow_locks_lock.
get_workflow_lock(locks, workflow_id) ==
    IF locks[workflow_id].exists THEN locks ELSE [locks EXCEPT ![workflow_id] = NewLock]

\* lock.locked()
Locked(lock) == lock.locked

\* A release() that leaves the lock locked.
StillHeld(lock) == lock

\* Lock.release(): unlocks and completes the future of the first waiter.
Released(lock) ==
    [lock EXCEPT !.locked = FALSE,
                 !.woken = IF lock.waiters # <<>> THEN @ \cup {Head(lock.waiters)} ELSE @]

\* Tasks of one event loop run one at a time and switch only at an await:
\* an HTTP invocation takes no step while another HTTP invocation is between
\* its lock.locked() test and the end of lock.acquire().
LoopFree(i, how) ==
    how = "http" =>
        \A j \in Invocations \ {i} :
            via[j] = "http" => pc[j] \notin {"acquire", "acquire_set"}

\* execute_workflow returns `envelope` from inside `async with lock`: the
\* lock is released on the way out, and release() raises when the lock is
\* not locked.
Leave(i, envelope) ==
    LET lock == workflow_locks[wf[i]]
    IN /\ pc' = [pc EXCEPT ![i] = "done"]
       /\ IF Locked(lock)
          THEN /\ workflow_locks' = [workflow_locks EXCEPT ![wf[i]] = Released(lock)]
               /\ result' = [result EXCEPT ![i] = envelope]
          ELSE /\ UNCHANGED workflow_locks
               /\ result' = [result EXCEPT ![i] = Raised("Lock is not acquired.")]

-----------------------------------------------------------------------------
(* execute_workflow.                                                       *)

\* An entry test that looks at the locks of all workflows.
AnyRunning(lock) == \E w \in WorkflowIds : Locked(workflow_locks[w])

\* An entry test that never sees the lock held.
NeverAlreadyRunning(lock) == FALSE

\* What the lock.locked() test of execute_workflow decides.
AlreadyRunning(lock) == Locked(lock)

\* execute_workflow is called: get_workflow_lock and the lock.locked() test.
Invoke(i, workflow_id, how) ==
    /\ pc[i] = "idle"
    /\ IF i = 1 THEN TRUE ELSE pc[i - 1] # "idle"
    /\ LoopFree(i, how)
    /\ via' = [via EXCEPT ![i] = how]
    /\ wf' = [wf EXCEPT ![i] = workflow_id]
    /\ workflow_locks' = get_workflow_lock(workflow_locks, workflow_id)
    /\ IF AlreadyRunning(workflow_locks'[workflow_id])
       THEN /\ pc' = [pc EXCEPT ![i] = "done"]
            /\ result' = [result EXCEPT ![i] =
                            Envelope("error", "Workflow is already running", TRUE, 0)]
       ELSE /\ pc' = [pc EXCEPT ![i] = "acquire"]
            /\ UNCHANGED result
    /\ UNCHANGED <<workflows, executions, now, exc, execution, logs, broadcasts>>
    /\ UNCHANGED traversalVars
    /\ UNCHANGED scheduleVars
    /\ UNCHANGED contextVars
    /\ UNCHANGED pureVars

\* lock.acquire(), first half: the test of _locked and of the waiters, and
\* on the slow path the future the caller will wait on.
LockAcquire(i) ==
    /\ pc[i] = "acquire"
    /\ LoopFree(i, via[i])
    /\ LET lock == workflow_locks[wf[i]]
           loop == LoopOf(i, via[i])
       IN IF ~lock.locked /\ lock.waiters = <<>>
          THEN /\ pc' = [pc EXCEPT ![i] = "acquire_set"]
               /\ UNCHANGED <<workflow_locks, result>>
          ELSE IF lock.loop \in {Unbound, loop}
          THEN /\ workflow_locks' =
                    [workflow_locks EXCEPT ![wf[i]].loop = loop,
                                           ![wf[i]].waiters = Append(@, i)]
               /\ pc' = [pc EXCEPT ![i] = "waiting"]
               /\ UNCHANGED result
          ELSE \* the lock is bound to a different event loop
               /\ pc' = [pc EXCEPT ![i] = "done"]
               /\ result' = [result EXCEPT ![i] = Raised("bound to a different event loop")]
               /\ UNCHANGED workflow_locks
    /\ UNCHANGED <<workflows, executions, now, via, wf, exc, execution, logs, broadcasts>>
    /\ UNCHANGED traversalVars
    /\ UNCHANGED scheduleVars
    /\ UNCHANGED contextVars
    /\ UNCHANGED pureVars

\* lock.acquire(), fast path, second half: self._locked = True.
LockSet(i) ==
    /\ pc[i] = "acquire_set"
    /\ LoopFree(i, via[i])
    /\ workflow_locks' = [workflow_locks EXCEPT ![wf[i]].locked = TRUE]
    /\ pc' = [pc EXCEPT ![i] = "locked"]
    /\ UNCHANGED <<workflows, executions, now, via, wf, result, exc, execution, logs,
                   broadcasts>>
    /\ UNCHANGED traversalVars
    /\ UNCHANGED scheduleVars
    /\ UNCHANGED contextVars
    /\ UNCHANGED pureVars

\* lock.acquire(), slow path: the waiter's future was completed by a
\* release(); the waiter leaves the queue and sets _locked.
LockWake(i) ==
    /\ pc[i] = "waiting"
    /\ LoopFree(i, via[i])
    /\ i \in workflow_locks[wf[i]].woken
    /\ workflow_locks' =
         [workflow_locks EXCEPT
            ![wf[i]].waiters = SelectSeq(@, LAMBDA j : j # i),
            ![wf[i]].woken = @ \ {i},
            ![wf[i]].locked = TRUE]
    /\ pc' = [pc EXCEPT ![i] = "locked"]
    /\ UNCHANGED <<workflows, executions, now, via, wf, result, exc, execution, logs,
                   broadcasts>>
    /\ UNCHANGED traversalVars
    /\ UNCHANGED scheduleVars
    /\ UNCHANGED contextVars
    /\ UNCHANGED pureVars

Row(workflow_id, status, error, entries, transitions) ==
    [workflow_id |-> workflow_id, status |-> status, error |-> error, logs |-> entries,
     transitions |-> transitions]

\* Whether an `await db.commit()` commits (TRUE) or raises (FALSE).
CommitOutcomes == BOOLEAN

\* Inside the lock: the workflow row is read and the execution record is
\* created with status running, and the "running" event is broadcast.
\* An engine that injects no webhook data.
WebhookNeverProvided(payload) == FALSE

\* if webhook_data:
WebhookProvided(payload) == Truthy(payload)

StartExecution(i) ==
    /\ pc[i] = "locked"
    /\ LoopFree(i, via[i])
    /\ IF workflows[wf[i]] = NoRow
       THEN /\ Leave(i, Envelope("error", "Workflow not found", FALSE, 0))
            /\ UNCHANGED <<executions, execution, broadcasts, variables>>
       ELSE \E committed \in CommitOutcomes :
            IF committed
            THEN /\ executions' = Append(executions, Row(wf[i], "running", None, <<>>, 0))
                 /\ execution' = [execution EXCEPT ![i] =
                                    [id |-> Len(executions) + 1, status |-> "running",
                                     error |-> None]]
                 /\ broadcasts' = [broadcasts EXCEPT ![i] =
                                     Append(@, [status |-> "running",
                                                message |-> "Starting workflow"])]
                 /\ pc' = [pc EXCEPT ![i] = "prepare"]
                 /\ variables' = [variables EXCEPT ![i] =
                                    IF WebhookProvided(webhook_data[i])
                                    THEN set_variable(<<>>, "webhook", webhook_data[i])
                                    ELSE <<>>]
                 /\ UNCHANGED <<workflow_locks, result>>
            ELSE /\ Leave(i, Raised(CommitFailed))
                 /\ UNCHANGED <<executions, execution, broadcasts, variables>>
    /\ UNCHANGED <<workflows, now, via, wf, exc, logs>>
    /\ UNCHANGED traversalVars
    /\ UNCHANGED scheduleVars
    /\ UNCHANGED <<webhook_data, rest_quote, app_settings, rest_expiry,
                   calendar>>
    /\ UNCHANGED pureVars

\* The rows of app_settings get_openalgo_client may find.
SettingsStates == {"configured", "no api key", "undecryptable key"}

\* A get_openalgo_client that hands out a client whatever the row holds.
AlwaysClient(row) == TRUE

\* get_openalgo_client: whether a client is returned (None otherwise).
HasClient(row) == row = "configured"

\* The first statements of the try block: the gateway client, the start node.
Prepare(i) ==
    /\ pc[i] = "prepare"
    /\ LoopFree(i, via[i])
    /\ IF ~HasClient(app_settings)
       THEN /\ pc' = [pc EXCEPT ![i] = "failing"]
            /\ exc' = [exc EXCEPT ![i] = NotConfigured]
            /\ UNCHANGED logs
       ELSE /\ logs' = [logs EXCEPT ![i] = Append(@, LogEntry("Starting workflow", "info"))]
            /\ IF FindStartNode(workflows[wf[i]].nodes) = 0
               THEN /\ pc' = [pc EXCEPT ![i] = "failing"]
                    /\ exc' = [exc EXCEPT ![i] = NoStartNode]
               ELSE /\ pc' = [pc EXCEPT ![i] = "traverse"]
                    /\ UNCHANGED exc
    /\ UNCHANGED <<workflows, executions, workflow_locks, now, via, wf, result, execution,
                   broadcasts>>
    /\ UNCHANGED traversalVars
    /\ UNCHANGED scheduleVars
    /\ UNCHANGED contextVars
    /\ UNCHANGED pureVars

\* The traversal's next call of execute_node_chain: the start node at depth
\* 0, or the target of the next edge of the innermost frame.
Step(i) ==
    /\ pc[i] = "traverse"
    /\ LoopFree(i, via[i])
    /\ LET graph == workflows[wf[i]]
           frames == stack[i]
       IN IF frames = <<>>
          THEN ExecuteNodeChain(i, graph, graph.nodes[FindStartNode(graph.nodes)].id,
                                0, 0, 0, <<>>)
          ELSE LET top == frames[Len(frames)]
                   edge == NextEdge(top.todo)
               IN ExecuteNodeChain(i, graph, graph.edges[edge].target, Len(frames),
                                   top.visit, edge,
                                   [frames EXCEPT ![Len(frames)].todo =
                                       SelectSeq(@, LAMBDA k : k # edge)])
    /\ UNCHANGED <<workflows, executions, workflow_locks, via, wf, result, execution>>
    /\ UNCHANGED scheduleVars
    /\ UNCHANGED <<webhook_data, rest_quote, app_settings, rest_expiry,
                   calendar>>
    /\ UNCHANGED pureVars

\* execute_node_chain returned: status completed, commit, broadcast, return.
Complete(i) ==
    /\ pc[i] = "completing"
    /\ LoopFree(i, via[i])
    /\ \E committed \in CommitOutcomes :
         IF committed
         THEN /\ execution' = [execution EXCEPT ![i].status = "completed"]
              /\ executions' = [executions EXCEPT ![execution[i].id] =
                                  Row(@.workflow_id, "completed", @.error, logs[i],
                                      @.transitions + 1)]
              /\ broadcasts' = [broadcasts EXCEPT ![i] =
                                  Append(@, [status |-> "completed",
                                             message |-> "Workflow executed successfully"])]
              /\ Leave(i, Envelope("success", "Workflow executed successfully", FALSE,
                                   execution[i].id))
              /\ UNCHANGED exc
         ELSE /\ execution' = [execution EXCEPT ![i].status = "completed"]
              /\ pc' = [pc EXCEPT ![i] = "failing"]
              /\ exc' = [exc EXCEPT ![i] = CommitFailed]
              /\ UNCHANGED <<executions, broadcasts, workflow_locks, result>>
    /\ UNCHANGED <<workflows, now, via, wf, logs>>
    /\ UNCHANGED traversalVars
    /\ UNCHANGED scheduleVars
    /\ UNCHANGED contextVars
    /\ UNCHANGED pureVars

\* An except clause that logs the error at level warning.
ErrorEntryAsWarning(e) == LogEntry("Error: " \o e, "warning")

\* The entry the except clause appends to logs: f"Error: {str(e)}", level error.
ErrorEntry(e) == LogEntry("Error: " \o e, "error")

\* The except clause: error log entry, status failed, commit, broadcast, return.
Fail(i) ==
    /\ pc[i] = "failing"
    /\ LoopFree(i, via[i])
    /\ LET entries == Append(logs[i], ErrorEntry(exc[i]))
       IN /\ logs' = [logs EXCEPT ![i] = entries]
          /\ execution' = [execution EXCEPT ![i].status = "failed", ![i].error = exc[i]]
          /\ \E committed \in CommitOutcomes :
               IF committed
               THEN /\ executions' = [executions EXCEPT ![execution[i].id] =
                                        Row(@.workflow_id, "failed", exc[i], entries,
                                            @.transitions + 1)]
                    /\ broadcasts' = [broadcasts EXCEPT ![i] =
                                        Append(@, [status |-> "failed", message |-> exc[i]])]
                    /\ Leave(i, Envelope("error", exc[i], FALSE, execution[i].id))
               ELSE /\ Leave(i, Raised(CommitFailed))
                    /\ UNCHANGED <<executions, broadcasts>>
    /\ UNCHANGED <<workflows, now, via, wf, exc>>
    /\ UNCHANGED traversalVars
    /\ UNCHANGED scheduleVars
    /\ UNCHANGED contextVars
    /\ UNCHANGED pureVars

-----------------------------------------------------------------------------
(* Activation: activate_workflow, deactivate_workflow and the delete       *)
(* route.  The scheduler (app.core.scheduler) is a set of jobs by id.      *)

\* schedule_job_id = None
NoJob == 0

JobIds == 1..MaxJobs

\* A row that is not active: is_active false, schedule_job_id None.
Inactive == [is_active |-> FALSE, schedule_job_id |-> NoJob]

\* A call and its answer; job_id is the id the scheduler returned to an
\* activation, or the id a deactivation passed to remove_job.
Reply(op, workflow_id, status, message, job_id) ==
    [op |-> op, workflow_id |-> workflow_id, status |-> status, message |-> message,
     job_id |-> job_id]
NoReply == Reply(None, 0, None, None, NoJob)

\* An activation that stores no job id.
StoreNoJob(job_id) == [is_active |-> TRUE, schedule_job_id |-> NoJob]

\* workflow.is_active = True; workflow.schedule_job_id = job_id
Activated(job_id) == [is_active |-> TRUE, schedule_job_id |-> job_id]

\* What workflow_scheduler.add_workflow_job does: it raises, or it inserts a
\* job, under a new id or in place of the job the workflow had, and returns
\* the id.
AddJobOutcomes(w) ==
    {NoJob} \cup {id \in JobIds : id \notin jobs \/ id = activation[w].schedule_job_id}

activate_workflow(w) ==
    /\ IF workflows[w] = NoRow
       THEN /\ reply' = Reply("activate", w, "error", "Workflow not found", NoJob)
            /\ UNCHANGED <<activation, jobs>>
       ELSE IF FindStartNode(workflows[w].nodes) = 0
       THEN /\ reply' = Reply("activate", w, "error", NoStartNode, NoJob)
            /\ UNCHANGED <<activation, jobs>>
       ELSE \E job_id \in AddJobOutcomes(w), committed \in CommitOutcomes :
            IF job_id = NoJob
            THEN \* add_workflow_job raised
                 /\ reply' = Reply("activate", w, "error", "scheduler error", NoJob)
                 /\ UNCHANGED <<activation, jobs>>
            ELSE /\ jobs' = jobs \cup {job_id}
                 /\ IF committed
                    THEN /\ activation' = [activation EXCEPT ![w] = Activated(job_id)]
                         /\ reply' = Reply("activate", w, "success", "Workflow activated",
                                           job_id)
                    ELSE /\ reply' = Reply("activate", w, "error", CommitFailed, NoJob)
                         /\ UNCHANGED activation
    /\ UNCHANGED <<workflows, executions, workflow_locks, now, pc, via, wf, result, exc,
                   execution, logs, broadcasts>>
    /\ UNCHANGED traversalVars
    /\ UNCHANGED contextVars
    /\ UNCHANGED pureVars

\* The statements of deactivate_workflow on an existing row; `op` is the
\* route that called it.
Deactivation(op, w, committed) ==
    /\ jobs' = jobs \ {activation[w].schedule_job_id}
    /\ IF committed
       THEN /\ activation' = [activation EXCEPT ![w] = Inactive]
            /\ reply' = Reply(op, w, "success", "Workflow deactivated",
                              activation[w].schedule_job_id)
       ELSE /\ reply' = Reply(op, w, "exception", CommitFailed,
                              activation[w].schedule_job_id)
            /\ UNCHANGED activation

deactivate_workflow(w) ==
    /\ IF workflows[w] = NoRow
       THEN /\ reply' = Reply("deactivate", w, "error", "Workflow not found", NoJob)
            /\ UNCHANGED <<activation, jobs>>
       ELSE \E committed \in CommitOutcomes : Deactivation("deactivate", w, committed)
    /\ UNCHANGED <<workflows, executions, workflow_locks, now, pc, via, wf, result, exc,
                   execution, logs, broadcasts>>
    /\ UNCHANGED traversalVars
    /\ UNCHANGED contextVars
    /\ UNCHANGED pureVars

\* The delete route: deactivate_workflow first when the row is active, then
\* the row is deleted.
delete_workflow(w) ==
    /\ IF workflows[w] = NoRow
       THEN /\ reply' = Reply("delete", w, "exception", "Workflow not found", NoJob)
            /\ UNCHANGED <<activation, jobs, workflows>>
       ELSE \E deactivated \in CommitOutcomes, deleted \in CommitOutcomes :
            IF activation[w].is_active /\ ~deactivated
            THEN /\ Deactivation("delete", w, FALSE)
                 /\ UNCHANGED workflows
            ELSE /\ jobs' = IF activation[w].is_active
                            THEN jobs \ {activation[w].schedule_job_id} ELSE jobs
                 /\ IF deleted
                    THEN /\ workflows' = [workflows EXCEPT ![w] = NoRow]
                         /\ activation' = [activation EXCEPT ![w] = Inactive]
                         /\ reply' = Reply("delete", w, "success", "Workflow deleted", NoJob)
                    ELSE /\ activation' = [activation EXCEPT ![w] =
                                              IF @.is_active THEN Inactive ELSE @]
                         /\ reply' = Reply("delete", w, "exception", CommitFailed, NoJob)
                         /\ UNCHANGED workflows
    /\ UNCHANGED <<executions, workflow_locks, now, pc, via, wf, result, exc,
                   execution, logs, broadcasts>>
    /\ UNCHANGED traversalVars
    /\ UNCHANGED contextVars
    /\ UNCHANGED pureVars

-----------------------------------------------------------------------------
(* Specifications.                                                         *)

\* No direct call has been made.
-----------------------------------------------------------------------------
(* POST /auth/setup.                                                       *)

MaxSetupCalls == 2
SetupCalls == 1..MaxSetupCalls

\* The passwords a setup request may carry.
Passwords == {"first-pw", "other-pw"}

\* pwd_context.hash(password)
get_password_hash(password) == "hash(" \o password \o ")"

\* The admin columns of a row of app_settings.
AdminRow(admin_password_hash, is_setup_complete) ==
    [admin_password_hash |-> admin_password_hash, is_setup_complete |-> is_setup_complete]

\* A request: "idle" before it arrives, "commit" between its select and its
\* commit, "done" once answered; the password it carries, the id of the row
\* its select returned (0 for None) and the status code of its answer.
SetupCall(at, password, row, status) ==
    [at |-> at, password |-> password, row |-> row, status |-> status]
NoCall == SetupCall("idle", None, 0, 0)

\* select(AppSettings).limit(1), scalar_one_or_none(): the id of the row, 0
\* for None.
FirstRow(rows) == IF rows = <<>> THEN 0 ELSE 1

\* settings and settings.is_setup_complete
SetupComplete(rows) == FirstRow(rows) # 0 /\ rows[FirstRow(rows)].is_setup_complete

\* The request arrives: the row is selected and, setup being complete, the
\* request is refused with 400; otherwise the row is created or updated in
\* the session and the request awaits its commit.
SetupSelect(r, password) ==
    /\ setup_calls[r].at = "idle"
    /\ setup_calls' =
          [setup_calls EXCEPT ![r] =
              IF SetupComplete(admin_rows)
              THEN SetupCall("done", password, FirstRow(admin_rows), 400)
              ELSE SetupCall("commit", password, FirstRow(admin_rows), 0)]
    /\ UNCHANGED admin_rows
    /\ UNCHANGED <<workflows, executions, workflow_locks, now, pc, via, wf, result, exc,
                   execution, logs, broadcasts, probe>>
    /\ UNCHANGED contextVars
    /\ UNCHANGED traversalVars
    /\ UNCHANGED scheduleVars

\* await db.commit() and the answer with the token; a commit that raises
\* leaves the table as it is and is answered with 500.
SetupCommit(r) ==
    /\ setup_calls[r].at = "commit"
    /\ LET call == setup_calls[r]
           row == AdminRow(get_password_hash(call.password), TRUE)
       IN \E committed \in BOOLEAN :
             IF committed
             THEN /\ admin_rows' = IF call.row = 0 THEN Append(admin_rows, row)
                                   ELSE [admin_rows EXCEPT ![call.row] = row]
                  /\ setup_calls' = [setup_calls EXCEPT ![r].at = "done", ![r].status = 200]
             ELSE /\ setup_calls' = [setup_calls EXCEPT ![r].at = "done", ![r].status = 500]
                  /\ UNCHANGED admin_rows
    /\ UNCHANGED <<workflows, executions, workflow_locks, now, pc, via, wf, result, exc,
                   execution, logs, broadcasts, probe>>
    /\ UNCHANGED contextVars
    /\ UNCHANGED traversalVars
    /\ UNCHANGED scheduleVars

NoProbe == [fn |-> "", name |-> "", value |-> PyNone, text |-> <<>>, out |-> "",
            default |-> PyNone, context |-> <<>>]

NoExecution == [id |-> 0, status |-> None, error |-> None]

\* December 2025, the gateway listing one expiry.
OneExpiry ==
    /\ rest_expiry = ExpiryResponse("success", <<<<"30", "-", "DEC", "-", "25">>>>)
    /\ calendar = <<2025, 12>>

\* Start-up: no execution, no lock, no job, no row active.
InitTables(tables, probes) ==
    /\ executions = <<>>
    /\ workflow_locks = [w \in WorkflowIds |-> NoLock]
    /\ now = <<9, 0, 0>>
    /\ pc = [i \in Invocations |-> "idle"]
    /\ via = [i \in Invocations |-> None]
    /\ wf = [i \in Invocations |-> 0]
    /\ result = [i \in Invocations |-> NoEnvelope]
    /\ exc = [i \in Invocations |-> None]
    /\ execution = [i \in Invocations |-> NoExecution]
    /\ logs = [i \in Invocations |-> <<>>]
    /\ condition_results = [i \in Invocations |-> <<>>]
    /\ visited_count = [i \in Invocations |-> <<>>]
    /\ stack = [i \in Invocations |-> <<>>]
    /\ trace = [i \in Invocations |-> <<>>]
    /\ gateway_calls = [i \in Invocations |-> <<>>]
    /\ broadcasts = [i \in Invocations |-> <<>>]
    /\ activation = [w \in WorkflowIds |-> Inactive]
    /\ jobs = {}
    /\ reply = NoReply
    /\ variables = [i \in Invocations |-> <<>>]
    /\ probe \in probes
    /\ sleeps = [i \in Invocations |-> 0]
    /\ admin_rows \in tables
    /\ setup_calls = [r \in SetupCalls |-> NoCall]

\* The table after setup.
SetUp == <<AdminRow(get_password_hash("admin-pw"), TRUE)>>

\* The engine's start-up, the admin set up.
InitEngine == InitTables({SetUp}, {NoProbe})

\* The callers of execute_workflow pass no webhook_data; the gateway is
\* configured or it is not.
InitWith(graph) ==
    /\ workflows = [w \in WorkflowIds |-> IF w = 1 THEN graph ELSE NoRow]
    /\ webhook_data = [i \in Invocations |-> PyNone]
    /\ rest_quote = Quote(PyInt(101))
    /\ app_settings \in SettingsStates
    /\ OneExpiry
    /\ InitEngine

\* Concurrent invocations, over HTTP and from scheduler workers, of workflows
\* with short graphs.
Init == \E graph \in OrchestratorGraphs : InitWith(graph)

Next ==
    \E i \in Invocations :
        \/ \E w \in WorkflowIds, how \in {"http", "scheduler"} : Invoke(i, w, how)
        \/ LockAcquire(i)
        \/ LockSet(i)
        \/ LockWake(i)
        \/ StartExecution(i)
        \/ Prepare(i)
        \/ Step(i)
        \/ Complete(i)
        \/ Fail(i)

Spec == Init /\ [][Next]_vars

\* Concurrent invocations of two workflows that both have a row.
InitParallel ==
    /\ workflows = [w \in WorkflowIds |-> IF w = 1 THEN SimpleBuy ELSE OrderThenLog]
    /\ webhook_data = [i \in Invocations |-> PyNone]
    /\ rest_quote = Quote(PyInt(101))
    /\ app_settings = "configured"
    /\ OneExpiry
    /\ InitEngine

\* Workflow 1 is executed over HTTP, on the server's event loop, and
\* workflow 2 by the scheduler, each time on a worker thread of its own.
NextParallel ==
    \E i \in Invocations :
        \/ Invoke(i, 1, "http")
        \/ Invoke(i, 2, "scheduler")
        \/ LockAcquire(i)
        \/ LockSet(i)
        \/ LockWake(i)
        \/ StartExecution(i)
        \/ Prepare(i)
        \/ Step(i)
        \/ Complete(i)
        \/ Fail(i)

SpecParallel == InitParallel /\ [][NextParallel]_vars

\* One HTTP execution of workflow 1, followed to its end, over every graph.
InitTraversal == \E graph \in TraversalGraphs : InitWith(graph)

NextTraversal ==
    \/ Invoke(1, 1, "http")
    \/ LockAcquire(1)
    \/ LockSet(1)
    \/ StartExecution(1)
    \/ Prepare(1)
    \/ Step(1)
    \/ Complete(1)
    \/ Fail(1)

SpecTraversal == InitTraversal /\ [][NextTraversal]_vars

\* One HTTP execution of a graph with edges to a node that does not exist.
InitDangling == \E graph \in DanglingGraphs : InitWith(graph)

SpecDangling == InitDangling /\ [][NextTraversal]_vars

\* Activation, deactivation and deletion of two workflows, one of them
\* without a start node.
InitSchedule ==
    /\ workflows = [w \in WorkflowIds |-> IF w = 1 THEN SimpleBuy ELSE NoStart]
    /\ webhook_data = [i \in Invocations |-> PyNone]
    /\ rest_quote = Quote(PyInt(101))
    /\ app_settings = "configured"
    /\ OneExpiry
    /\ InitEngine

NextSchedule ==
    \E w \in WorkflowIds :
        \/ activate_workflow(w)
        \/ deactivate_workflow(w)
        \/ delete_workflow(w)

SpecSchedule == InitSchedule /\ [][NextSchedule]_vars

\* One invocation of a workflow that exercises a handler.
InitHandlers == \E graph \in HandlerGraphs : InitWith(graph)

SpecHandlers == InitHandlers /\ [][NextTraversal]_vars

\* One invocation, with a webhook payload or without one, of a workflow whose
\* nodes use context.variables.
InitContext ==
    \E graph \in ContextGraphs, payload \in Payloads \cup {PyNone}, quote \in RestQuotes :
        /\ workflows = [w \in WorkflowIds |-> IF w = 1 THEN graph ELSE NoRow]
        /\ webhook_data = [i \in Invocations |-> IF i = 1 THEN payload ELSE PyNone]
        /\ rest_quote = quote
        /\ app_settings \in SettingsStates
        /\ OneExpiry
        /\ InitEngine

SpecContext == InitContext /\ [][NextTraversal]_vars

\* The names and values a context is given directly, and the texts it is
\* asked to interpolate.
MaxVariables == 2
ProbeNames == {"x", "a", "a.b", "date"}
ProbeValues ==
    {PyNone, PyStr(""), PyStr("SBIN"), PyDict(<<<<"b", PyInt(2)>>, <<"c", PyNone>>>>)}

\* var_path.split(".") for the names of the model.
SplitName(name) == IF name = "a.b" THEN <<"a", "b">> ELSE <<name>>

\* The text "{{name}}".
PlaceholderFor(name) == Placeholder("{{" \o name \o "}}", SplitName(name))

ProbeTexts ==
    {<<>>, <<Lit("plain text, no braces")>>, <<Lit("half {{ open")>>,
     <<Lit("v="), Placeholder("{{ x }}", <<"x">>), Lit("/"),
       Placeholder("{{a.b}}", <<"a", "b">>), Lit("/"),
       Placeholder("{{a.c}}", <<"a", "c">>)>>,
     <<Placeholder("{{x.b}}", <<"x", "b">>), Placeholder("{{a.b.c}}", <<"a", "b", "c">>)>>,
     <<Placeholder("{{hour}}", <<"hour">>), Lit(":"), Placeholder("{{ghost}}", <<"ghost">>)>>}
    \cup {<<PlaceholderFor(name)>> : name \in ProbeNames}

\* context.set_variable(name, value), called directly.
SetVariable(name, value) ==
    /\ Len(set_variable(variables[1], name, value)) <= MaxVariables
    /\ variables' = [variables EXCEPT ![1] = set_variable(@, name, value)]
    /\ probe' = [NoProbe EXCEPT !.fn = "set_variable", !.name = name, !.value = value]
    /\ UNCHANGED <<workflows, executions, workflow_locks, now, pc, via, wf, result, exc,
                   execution, logs, broadcasts, webhook_data, rest_quote, app_settings, rest_expiry,
                   calendar>>
    /\ UNCHANGED traversalVars
    /\ UNCHANGED scheduleVars
    /\ UNCHANGED authVars

\* context.interpolate(text), called directly.
Interpolate(text) ==
    /\ probe' = [probe EXCEPT !.fn = "interpolate", !.text = text,
                              !.out = interpolate(text, variables[1], now)]
    /\ UNCHANGED <<workflows, executions, workflow_locks, now, pc, via, wf, result, exc,
                   execution, logs, broadcasts>>
    /\ UNCHANGED contextVars
    /\ UNCHANGED traversalVars
    /\ UNCHANGED scheduleVars
    /\ UNCHANGED authVars

\* A context that is given variables and asked to interpolate texts, at some
\* time of day.
InitInterpolate ==
    /\ workflows = [w \in WorkflowIds |-> NoRow]
    /\ webhook_data = [i \in Invocations |-> PyNone]
    /\ rest_quote = Quote(PyInt(101))
    /\ app_settings = "configured"
    /\ OneExpiry
    /\ InitEngine

NextInterpolate ==
    \/ \E name \in ProbeNames, value \in ProbeValues : SetVariable(name, value)
    \/ \E text \in ProbeTexts : Interpolate(text)

SpecInterpolate == InitInterpolate /\ [][NextInterpolate]_vars

\* The expiry strings the gateway may list: two of December 2025, two of
\* January 2026, in both formats and in mixed case, and one in a format
\* that is not read.
ExpiryStrings ==
    {<<"25", "DEC", "25">>, <<"30", "-", "Dec", "-", "25">>, <<"27", "-", "jan", "-", "26">>,
     <<"06", "JAN", "26">>, <<"2026", "-", "01", "-", "27">>}

MaxExpiries == 3

ExpiryLists == UNION {[1..n -> ExpiryStrings] : n \in 0..MaxExpiries}

ExpiryResponses ==
    {ExpiryResponse("success", expiry_list) : expiry_list \in ExpiryLists}
    \cup {ExpiryResponse("error", <<>>), ExpiryRaises}

Calendars == {<<2025, 11>>, <<2025, 12>>, <<2026, 1>>}

\* One invocation of a workflow with an options order, the gateway listing
\* any expiries.
InitOptions ==
    \E graph \in OptionsGraphs :
        /\ workflows = [w \in WorkflowIds |-> IF w = 1 THEN graph ELSE NoRow]
        /\ webhook_data = [i \in Invocations |-> PyNone]
        /\ rest_quote = Quote(PyInt(101))
        /\ app_settings = "configured"
        /\ rest_expiry \in ExpiryResponses
        /\ calendar = <<2025, 12>>
        /\ InitEngine

SpecOptions == InitOptions /\ [][NextTraversal]_vars

\* _resolve_expiry_date(symbol, exchange, expiry_type), called directly.
ResolveExpiry(expiry_type) ==
    /\ probe' = [NoProbe EXCEPT !.fn = "_resolve_expiry_date", !.name = expiry_type,
                                !.out = resolve_expiry_date(rest_expiry, expiry_type,
                                                            calendar).date]
    /\ UNCHANGED <<workflows, executions, workflow_locks, now, pc, via, wf, result, exc,
                   execution, logs, broadcasts>>
    /\ UNCHANGED contextVars
    /\ UNCHANGED traversalVars
    /\ UNCHANGED scheduleVars
    /\ UNCHANGED authVars

InitExpiry ==
    /\ workflows = [w \in WorkflowIds |-> NoRow]
    /\ webhook_data = [i \in Invocations |-> PyNone]
    /\ rest_quote = Quote(PyInt(101))
    /\ app_settings = "configured"
    /\ rest_expiry \in ExpiryResponses
    /\ calendar \in Calendars
    /\ InitEngine

NextExpiry == \E expiry_type \in ExpiryTypes \cup {"weekly"} : ResolveExpiry(expiry_type)

SpecExpiry == InitExpiry /\ [][NextExpiry]_vars

\* The table before setup, empty or with a row that get_or_create_settings
\* made, and the table after setup.
AdminTables == {<<>>, <<AdminRow(None, FALSE)>>, SetUp}

InitSetup ==
    /\ workflows = [w \in WorkflowIds |-> NoRow]
    /\ webhook_data = [i \in Invocations |-> PyNone]
    /\ rest_quote = Quote(PyInt(101))
    /\ app_settings = "configured"
    /\ OneExpiry
    /\ InitTables(AdminTables, {NoProbe})

NextSetup ==
    \E r \in SetupCalls :
        \/ \E password \in Passwords : SetupSelect(r, password)
        \/ SetupCommit(r)

SpecSetup == InitSetup /\ [][NextSetup]_vars

\* The parts of a time string: digits in and out of range, letters, the
\* empty part and a digit that is no decimal digit.
TimeParts == {"09", "23", "99", "ab", "", "<superscript 2>"}

MaxParts == 3

TimeStrings == UNION {[1..n -> TimeParts] : n \in 0..MaxParts}

\* The defaults the handlers pass: waitUntil and timeCondition 9:30,
\* timeWindow 9:15 and 15:30.
TimeDefaults == {<<9, 30>>, <<9, 15>>, <<15, 30>>}

\* parse_time_string(time_str, default_hour, default_minute), called
\* directly with the arguments that wait in probe.
ParseTimeString ==
    /\ probe.fn = ""
    /\ probe' = [probe EXCEPT !.fn = "parse_time_string",
                              !.out = parse_time_string(probe.text, probe.value[1],
                                                        probe.value[2])]
    /\ UNCHANGED <<workflows, executions, workflow_locks, now, pc, via, wf, result, exc,
                   execution, logs, broadcasts>>
    /\ UNCHANGED contextVars
    /\ UNCHANGED traversalVars
    /\ UNCHANGED scheduleVars
    /\ UNCHANGED authVars

\* A time string and the caller's defaults, about to be parsed.
InitParseTime ==
    /\ workflows = [w \in WorkflowIds |-> NoRow]
    /\ webhook_data = [i \in Invocations |-> PyNone]
    /\ rest_quote = Quote(PyInt(101))
    /\ app_settings = "configured"
    /\ OneExpiry
    /\ InitTables({SetUp}, {[NoProbe EXCEPT !.text = time_str, !.value = defaults] :
                                time_str \in TimeStrings, defaults \in TimeDefaults})

NextParseTime == ParseTimeString

SpecParseTime == InitParseTime /\ [][NextParseTime]_vars

\* The values a key of node_data may hold: numbers, zero among them, null,
\* and strings, empty, numeric, not numeric and with placeholders.
Fields ==
    {NoField, ValueField(PyInt(0)), ValueField(PyInt(5)), ValueField(PyFloat(0)),
     ValueField(PyNone), TextField(<<>>), TextField(<<Lit("5")>>), TextField(<<Lit("0")>>),
     TextField(<<Lit("SBIN")>>), TextField(<<X>>),
     TextField(<<Placeholder("{{y}}", <<"y">>)>>)}

\* The defaults the handlers pass: numbers to get_int and get_float, strings
\* to get_str.
GetterDefaults == {PyInt(0), PyInt(1), PyStr(""), PyStr("NSE")}

\* The contexts the getters interpolate in: x is a number, or a word.
GetterContexts == {<<<<"x", PyInt(10)>>>>, <<<<"x", PyStr("SBIN")>>>>}

\* executor.get_str(node_data, key, default), called directly with the
\* arguments that wait in probe.
GetStr ==
    /\ probe.fn = "getter"
    /\ probe.default.t = "str"
    /\ probe' = [probe EXCEPT !.fn = "get_str",
                              !.out = get_str_field(probe.value, probe.default.s,
                                                    probe.context, now)]
    /\ UNCHANGED <<workflows, executions, workflow_locks, now, pc, via, wf, result, exc,
                   execution, logs, broadcasts>>
    /\ UNCHANGED contextVars
    /\ UNCHANGED traversalVars
    /\ UNCHANGED scheduleVars
    /\ UNCHANGED authVars

\* executor.get_int(node_data, key, default), called directly.
GetInt ==
    /\ probe.fn = "getter"
    /\ probe.default.t = "int"
    /\ probe' = [probe EXCEPT !.fn = "get_int",
                              !.out = get_int(probe.value, probe.default,
                                              probe.context, now)]
    /\ UNCHANGED <<workflows, executions, workflow_locks, now, pc, via, wf, result, exc,
                   execution, logs, broadcasts>>
    /\ UNCHANGED contextVars
    /\ UNCHANGED traversalVars
    /\ UNCHANGED scheduleVars
    /\ UNCHANGED authVars

\* executor.get_float(node_data, key, default), called directly.
GetFloat ==
    /\ probe.fn = "getter"
    /\ probe.default.t = "int"
    /\ probe' = [probe EXCEPT !.fn = "get_float",
                              !.out = get_float(probe.value, probe.default,
                                                probe.context, now)]
    /\ UNCHANGED <<workflows, executions, workflow_locks, now, pc, via, wf, result, exc,
                   execution, logs, broadcasts>>
    /\ UNCHANGED contextVars
    /\ UNCHANGED traversalVars
    /\ UNCHANGED scheduleVars
    /\ UNCHANGED authVars

\* A field, a default and a context, about to be read by a getter.
InitGetters ==
    /\ workflows = [w \in WorkflowIds |-> NoRow]
    /\ webhook_data = [i \in Invocations |-> PyNone]
    /\ rest_quote = Quote(PyInt(101))
    /\ app_settings = "configured"
    /\ OneExpiry
    /\ InitTables({SetUp},
                  {[NoProbe EXCEPT !.fn = "getter", !.value = field, !.default = default,
                                   !.context = context] :
                      field \in Fields, default \in GetterDefaults,
                      context \in GetterContexts})

NextGetters == GetStr \/ GetInt \/ GetFloat

SpecGetters == InitGetters /\ [][NextGetters]_vars

\* The graphs of the library apart from the one built to reach the visit limit.
ShallowGraphs == TraversalGraphs \ {Layered}

InitShallow == \E graph \in ShallowGraphs : InitWith(graph)

\* One invocation over a shallow graph, the execution always taking its next
\* step: execute_workflow is a coroutine the event loop runs to its end.
FairSpecShallow == InitShallow /\ [][NextTraversal]_vars /\ WF_vars(NextTraversal)

-----------------------------------------------------------------------------
(* Properties.                                                             *)

Terminal == {"completed", "failed"}

\* The invocations that have created an execution record.
Accepted == {i \in Invocations : execution[i].id # 0}

\* The committed row of an accepted invocation.
RowOf(i) == executions[execution[i].id]

\* The executions of workflow w that are in progress with a row in status
\* running.
RunningExecutions(w) ==
    {i \in Accepted : /\ pc[i] # "done"
                      /\ RowOf(i).workflow_id = w
                      /\ RowOf(i).status = "running"}

\* C1: for any workflow id, at every instant at most one execution of that
\* workflow is in status running, under every interleaving of HTTP and
\* scheduler-worker invocations.
C1_AtMostOneRunning ==
    \A w \in WorkflowIds : Cardinality(RunningExecutions(w)) <= 1

\* The invocation i is called in this step while the lock of its workflow
\* is held.
ArrivesWhileLocked(i) ==
    /\ pc[i] = "idle"
    /\ pc'[i] # "idle"
    /\ Locked(workflow_locks[wf'[i]])

\* C2: an invocation that arrives while another execution of the same
\* workflow holds the lock returns at once with status error and
\* already_running = true; it never waits on the lock, creates no execution
\* record, broadcasts nothing and runs no node.
C2_RejectedWithoutQueueing ==
    /\ [][\A i \in Invocations :
            ArrivesWhileLocked(i) =>
                /\ pc'[i] = "done"
                /\ result'[i].status = "error"
                /\ result'[i].already_running
                /\ workflow_locks'[wf'[i]] = workflow_locks[wf'[i]]
                /\ UNCHANGED <<executions, execution, broadcasts, trace, logs,
                               gateway_calls>>]_vars
    /\ [](\A i \in Invocations :
            result[i].already_running =>
                /\ pc[i] = "done"
                /\ execution[i] = NoExecution
                /\ broadcasts[i] = <<>>
                /\ trace[i] = <<>>
                /\ gateway_calls[i] = <<>>)

\* An invocation was rejected while another execution of its workflow was
\* being traversed.
C2_Witness ==
    \E i, j \in Invocations :
        /\ i # j
        /\ wf[i] = wf[j]
        /\ result[i].already_running
        /\ pc[j] = "traverse"

\* C3: every execution record is created with status running before the
\* first node is dispatched, makes exactly one transition to a terminal
\* status, and never changes after it, on every path through
\* execute_workflow including failures of the persistence commit.
C3_ExactlyOneTerminalTransition ==
    /\ \A i \in Invocations : trace[i] # <<>> => i \in Accepted
    /\ \A e \in DOMAIN executions :
          /\ executions[e].status = "running" <=> executions[e].transitions = 0
          /\ executions[e].status \in Terminal <=> executions[e].transitions = 1
    /\ \A i \in Accepted : pc[i] = "done" => RowOf(i).status \in Terminal

\* C4: in any single execution, for any graph, the number of node visits
\* never exceeds MAX_NODE_VISITS and no node is dispatched at a depth
\* greater than MAX_NODE_DEPTH (the start node being at depth 0).
C4_VisitAndDepthBounds ==
    \A i \in Invocations :
        /\ TotalVisits(visited_count[i]) <= MAX_NODE_VISITS
        /\ Len(trace[i]) <= MAX_NODE_VISITS
        /\ \A k \in DOMAIN trace[i] : trace[i][k].depth <= MAX_NODE_DEPTH

\* An execution has made MAX_NODE_VISITS visits and its next call raised the
\* visit-limit error.
C4_Witness ==
    \E i \in Invocations :
        /\ TotalVisits(visited_count[i]) = MAX_NODE_VISITS
        /\ pc[i] = "failing"
        /\ exc[i] = VisitsExceeded


\* The graph the invocation executes.
GraphOf(i) == workflows[wf[i]]

\* The invocation executes the self-loop graph and its traversal has begun.
SelfLoopRun(i) == wf[i] # 0 /\ GraphOf(i) = SelfLoop /\ trace[i] # <<>>

\* C5 as stated: an execution of a graph in which an always-true conditional
\* has a "yes" edge back to itself ends with the visit-limit error.
C5_EndsWithVisitLimit ==
    \A i \in Invocations :
        SelfLoopRun(i) /\ pc[i] \in {"failing", "done"} => exc[i] = VisitsExceeded

\* C5 as amended: the execution terminates, and it ends failed with the
\* depth-limit error, which is raised before the visit limit is reached.
C5_TerminatesWithDepthLimit ==
    /\ [](\A i \in Invocations :
            SelfLoopRun(i) =>
                /\ pc[i] # "completing"
                /\ TotalVisits(visited_count[i]) <= MAX_NODE_DEPTH + 1
                /\ pc[i] \in {"failing", "done"} => exc[i] = DepthExceeded)
    /\ \A i \in Invocations :
          SelfLoopRun(i) ~>
              /\ pc[i] = "done"
              /\ execution[i].status = "failed"
              /\ execution[i].error = DepthExceeded

\* The self-loop execution has ended failed with the depth-limit error after
\* MAX_NODE_DEPTH + 1 node visits.
C5_Witness ==
    \E i \in Invocations :
        /\ SelfLoopRun(i)
        /\ pc[i] = "done"
        /\ execution[i].error = DepthExceeded
        /\ TotalVisits(visited_count[i]) = MAX_NODE_DEPTH + 1

\* The visits of an execution that were reached over an edge of a node whose
\* handler result carries a condition.
ConditionalChildren(i) ==
    {k \in DOMAIN trace[i] :
        trace[i][k].parent # 0 /\ trace[i][trace[i][k].parent].result.hasCond}

\* The condition of the node the visit k was reached from, and the edge.
ParentCondition(i, k) == trace[i][trace[i][k].parent].result.cond
EdgeInto(i, k) == GraphOf(i).edges[trace[i][k].edge]

\* C6 as stated: for condition = true only edges whose sourceHandle is
\* "yes", empty or absent are followed, for condition = false only edges
\* whose sourceHandle is "no", empty or absent.
C6_OnlyLabelledOrUnlabelled ==
    \A i \in Invocations : \A k \in ConditionalChildren(i) :
        EdgeInto(i, k).sourceHandle \in
            {IF ParentCondition(i, k) THEN "yes" ELSE "no", "", Absent}

\* The edges over which the children of visit p were reached, in the order
\* of the visits.
EdgesTaken(i, p) ==
    LET children == SelectSeq([k \in 1..Len(trace[i]) |-> k],
                              LAMBDA k : trace[i][k].parent = p)
    IN [j \in 1..Len(children) |-> trace[i][children[j]].edge]

\* The outgoing edges of node_id whose sourceHandle is not `label`.
EdgesNotLabelled(edges, node_id, label) ==
    SelectSeq(EdgeMapGet(edges, node_id), LAMBDA k : edges[k].sourceHandle # label)

\* C6 as amended: for condition = true the traverser follows every outgoing
\* edge whose sourceHandle is not "no" and no other, for condition = false
\* every outgoing edge whose sourceHandle is not "yes" and no other.
C6_AllButTheOppositeLabel ==
    \A i \in Invocations :
        /\ \A k \in ConditionalChildren(i) :
              EdgeInto(i, k).sourceHandle # (IF ParentCondition(i, k) THEN "no" ELSE "yes")
        /\ pc[i] = "completing" =>
              \A p \in DOMAIN trace[i] :
                  trace[i][p].result.hasCond =>
                      EdgesTaken(i, p) =
                          EdgesNotLabelled(GraphOf(i).edges, trace[i][p].node,
                                           IF trace[i][p].result.cond THEN "no" ELSE "yes")

\* A traversal has ended in which an edge labelled neither "yes" nor "no"
\* nor empty was followed from a node whose condition was true.
C6_Witness ==
    \E i \in Invocations :
        /\ pc[i] = "completing"
        /\ \E k \in ConditionalChildren(i) :
              /\ ParentCondition(i, k)
              /\ EdgeInto(i, k).sourceHandle = "output"

\* The visit k and the visits it was reached through.
RECURSIVE AncestorsOrSelf(_, _)
AncestorsOrSelf(visits, k) ==
    IF k = 0 THEN {} ELSE {k} \cup AncestorsOrSelf(visits, visits[k].parent)

\* C7: traversal is depth-first and left-to-right: the target of an earlier
\* declared followed edge and the whole subtree reached from it are
\* executed before the target of any later declared edge of the same node,
\* and handlers of one execution run one at a time.  Stated at each
\* dispatch: at most one node is dispatched per step, and every node already
\* dispatched from the same node as the new visit, or as one of the visits it
\* was reached through, was reached over an earlier declared edge.
C7_DepthFirstLeftToRight ==
    [][\A i \in Invocations :
         trace'[i] # trace[i] =>
             LET visits == trace'[i]
                 x == Len(visits)
             IN /\ x = Len(trace[i]) + 1
                /\ SubSeq(visits, 1, x - 1) = trace[i]
                /\ \A a \in AncestorsOrSelf(visits, x) :
                      \A w \in 1..(x - 1) :
                          w # a /\ visits[w].parent = visits[a].parent =>
                              visits[w].edge < visits[a].edge]_vars

\* In start -> placeOrder -> log with a second edge start -> group, the group
\* node was dispatched last, after the subtree of the first edge.
C7_Witness ==
    \E i \in Invocations :
        /\ wf[i] # 0
        /\ GraphOf(i) = OrderThenLog
        /\ Len(trace[i]) = 4
        /\ trace[i][2].node = "o" /\ trace[i][3].node = "l" /\ trace[i][4].node = "g"
        /\ trace[i][4].parent = 1 /\ trace[i][3].parent = 2

\* A place-order call reached the gateway in the execution.
OrderPlaced(i) == \E k \in DOMAIN gateway_calls[i] : gateway_calls[i][k] = "placeorder"

\* The traversal of an execution of the and-gate graph has returned.
AndGateRunOver(i) ==
    /\ wf[i] # 0
    /\ GraphOf(i).name \in {"AndGateYes", "AndGateDefault"}
    /\ pc[i] = "completing"

\* C8: where start feeds two timeWindow conditionals, both feed one andGate
\* and the gate feeds a placeOrder, a place-order call reaches the gateway
\* during an execution if and only if both conditions are true in it.
C8_OrderIffBothWindows ==
    \A i \in Invocations :
        AndGateRunOver(i) =>
            (OrderPlaced(i) <=> condition_results[i]["t1"] /\ condition_results[i]["t2"])

\* The invocation executes a workflow with no node of kind start.
NoStartRun(i) ==
    /\ i \in Accepted
    /\ \A k \in DOMAIN GraphOf(i).nodes : GraphOf(i).nodes[k].type # "start"

\* C9 as stated: whenever a workflow with no start node is executed, the
\* execution fails with "No start node found" and no handler has run.
C9_FailsWithNoStartNode ==
    \A i \in Invocations :
        NoStartRun(i) /\ pc[i] = "done" =>
            /\ execution[i].status = "failed"
            /\ execution[i].error = NoStartNode
            /\ trace[i] = <<>>

\* get_openalgo_client returned a client to the invocation: the log entry
\* written right after it is there.
ClientObtained(i) == logs[i] # <<>> /\ logs[i][1] = LogEntry("Starting workflow", "info")

\* C9 as amended: whenever a workflow with no start node is executed, no
\* handler runs and execute_workflow marks the execution failed, with "No
\* start node found" when the gateway client was obtained and with "OpenAlgo
\* not configured" when it was not.
C9_FailsBeforeAnyHandler ==
    \A i \in Invocations :
        NoStartRun(i) =>
            /\ trace[i] = <<>> /\ gateway_calls[i] = <<>> /\ visited_count[i] = <<>>
            /\ pc[i] \in {"prepare", "failing", "done"}
            /\ pc[i] = "done" =>
                  /\ execution[i].status = "failed"
                  /\ execution[i].error =
                        IF ClientObtained(i) THEN NoStartNode ELSE NotConfigured

\* An execution of a workflow with no start node has ended failed with "No
\* start node found".
C9_Witness ==
    \E i \in Invocations :
        /\ NoStartRun(i)
        /\ pc[i] = "done"
        /\ execution[i].status = "failed"
        /\ execution[i].error = NoStartNode

\* The errors a node handler fails with on invalid input.
InputValidationErrors == {InvalidLiteral}

\* C10: a node handler failure (input-validation or gateway error) never
\* terminates the run: only the depth and visit limits and system-level
\* errors make an execution fail.
C10_HandlerFailureNeverFails ==
    \A i \in Invocations :
        execution[i].status = "failed" => execution[i].error \notin InputValidationErrors


\* An exception reached the except clause of execute_workflow and the clause
\* has run.
FailedRun(i) == i \in Accepted /\ exc[i] # None /\ pc[i] = "done"

\* The errors raised by the limits of execute_node_chain.
LimitErrors == {DepthExceeded, VisitsExceeded}

\* C11: when the depth or visit limit is exceeded, or any other exception
\* escapes the traversal, the execution ends with status failed, an
\* error-level entry carrying the message is the last log entry, and the
\* same message is in the execution record's error field; the committed row
\* holds the same whenever the commit of the except clause succeeded.
C11_FailureIsRecorded ==
    \A i \in Invocations :
        /\ pc[i] = "failing" => exc[i] # None
        /\ exc[i] \in LimitErrors \cup InputValidationErrors => pc[i] \in {"failing", "done"}
        /\ FailedRun(i) =>
              /\ execution[i].status = "failed"
              /\ execution[i].error = exc[i]
              /\ logs[i] # <<>>
              /\ logs[i][Len(logs[i])] = [message |-> "Error: " \o exc[i], level |-> "error"]
              /\ result[i].status = "error" =>
                    /\ result[i].message = exc[i]
                    /\ RowOf(i).status = "failed"
                    /\ RowOf(i).error = exc[i]
                    /\ RowOf(i).logs = logs[i]

\* An execution that hit the depth limit or whose handler raised has ended
\* and its failure is committed.
C11_Witness ==
    \E i \in Invocations :
        /\ FailedRun(i)
        /\ exc[i] \in {DepthExceeded, InvalidLiteral}
        /\ RowOf(i).status = "failed"
        /\ RowOf(i).error = exc[i]

\* C12: every execution started on a finite graph, cyclic or not, reaches a
\* terminal status, the handlers returning; a cycle is cut by the depth and
\* visit bounds: the recursion never nests deeper than MAX_NODE_DEPTH + 1
\* calls, the calls never number more than MAX_NODE_VISITS, and an execution
\* that runs into a cycle does not complete.
C12_EveryExecutionTerminates ==
    /\ [](\A i \in Invocations :
            /\ Len(stack[i]) <= MAX_NODE_DEPTH + 1
            /\ Len(trace[i]) <= MAX_NODE_VISITS
            /\ SelfLoopRun(i) => pc[i] # "completing" /\ execution[i].status # "completed")
    /\ \A i \in Invocations :
          (execution[i].id # 0) ~> (pc[i] = "done" /\ execution[i].status \in Terminal)

\* An execution of the cyclic graph has ended in a terminal status after
\* nesting MAX_NODE_DEPTH + 1 calls.
C12_Witness ==
    \E i \in Invocations :
        /\ SelfLoopRun(i)
        /\ Len(trace[i]) = MAX_NODE_DEPTH + 1
        /\ pc[i] = "done"
        /\ execution[i].status \in Terminal
        /\ result[i].status # None


\* The kind of the node with this id.
KindOf(graph, node_id) == graph.nodes[FindNode(graph.nodes, node_id)].type

\* The sources of the node's incoming edges that have a condition result.
InputSources(graph, node_id, results) ==
    {graph.edges[k].source : k \in {j \in DOMAIN graph.edges : graph.edges[j].target = node_id}}
        \cap DOMAIN results

\* C13: an andGate's condition is the conjunction, an orGate's the
\* disjunction, of the condition results recorded for the source nodes of
\* its incoming edges, and a notGate's the negation of its single input;
\* with no recorded condition result among its inputs an andGate and an
\* orGate yield false and a notGate yields true.  Stated at each dispatch of
\* a gate, on the condition results as they are when the gate runs.
C13_GateConditions ==
    [][\A i \in Invocations :
         Len(trace'[i]) = Len(trace[i]) + 1 =>
             LET visit == trace'[i][Len(trace'[i])]
                 kind == KindOf(GraphOf(i), visit.node)
                 inputs == InputSources(GraphOf(i), visit.node, condition_results[i])
                 value(src) == condition_results[i][src]
             IN /\ kind \in {"andGate", "orGate", "notGate"} =>
                      visit.result.hasCond /\ visit.result.status = "success"
                /\ kind = "andGate" =>
                      (visit.result.cond <=> inputs # {} /\ \A src \in inputs : value(src))
                /\ kind = "orGate" =>
                      (visit.result.cond <=> \E src \in inputs : value(src))
                /\ kind = "notGate" /\ inputs = {} => visit.result.cond
                /\ kind = "notGate" =>
                      \A src \in inputs : inputs = {src} => (visit.result.cond <=> ~value(src))]_vars

\* An execution of the gate graph has ended in which the first window was
\* true and the second false: the andGate gave false, the orGate true, the
\* notGate of the first window false, and the gates without a conditional
\* input false, false and true.
C13_Witness ==
    \E i \in Invocations :
        /\ wf[i] # 0 /\ GraphOf(i) = Gates /\ pc[i] = "completing"
        /\ condition_results[i]["t1"] /\ ~condition_results[i]["t2"]
        /\ ~condition_results[i]["ag"] /\ condition_results[i]["og"]
        /\ ~condition_results[i]["ng"]
        /\ ~condition_results[i]["ag0"] /\ ~condition_results[i]["og0"]
        /\ condition_results[i]["ng0"]


\* The visits of an execution to nodes of a kind the dispatch does not know.
UnknownVisits(i) ==
    {k \in DOMAIN trace[i] : KindOf(GraphOf(i), trace[i][k].node) \notin KnownKinds}

\* The log entry written for a node of unknown kind.
UnknownKindWarning == [message |-> "Unknown node type", level |-> "warning"]

\* C14: a node whose kind is not one of the known kinds is logged as a
\* warning, runs no handler (it has no result and nothing reaches the
\* gateway), does not fail the execution, and all its outgoing edges are
\* followed in declared order whatever their sourceHandle.
C14_UnknownKindPassesThrough ==
    \A i \in Invocations :
        /\ \A k \in UnknownVisits(i) :
              /\ trace[i][k].result.isNone
              /\ \E j \in DOMAIN logs[i] : logs[i][j] = UnknownKindWarning
              /\ pc[i] = "completing" =>
                    EdgesTaken(i, k) = EdgeMapGet(GraphOf(i).edges, trace[i][k].node)
        /\ wf[i] # 0 /\ GraphOf(i) = UnknownKind =>
              /\ gateway_calls[i] = <<>>
              /\ trace[i] # <<>> => exc[i] \in {None, CommitFailed}
              /\ pc[i] = "completing" =>
                    /\ [k \in DOMAIN trace[i] |-> trace[i][k].node] =
                          <<"s", "u", "a", "b", "c", "d">>
                    /\ Len(logs[i]) = 7
                    /\ logs[i][3] = UnknownKindWarning
              /\ pc[i] = "done" /\ trace[i] # <<>> /\ execution[i].status = "failed" =>
                    exc[i] = CommitFailed

\* The traversal of the graph with the unknown node has returned, the four
\* targets of the unknown node visited in declared order.
C14_Witness ==
    \E i \in Invocations :
        /\ wf[i] # 0 /\ GraphOf(i) = UnknownKind /\ pc[i] = "completing"
        /\ UnknownVisits(i) = {2}
        /\ EdgesTaken(i, 2) = <<2, 3, 4, 5>>


\* The workflows that have a row.
Rows == {w \in WorkflowIds : workflows[w] # NoRow}

\* C15: after any sequence of activate, deactivate and delete operations a
\* workflow row has a schedule_job_id if and only if is_active is true; an
\* activation stores the job id the scheduler returned, and a deactivation
\* removes the job with the stored id and clears both fields.
C15_JobIdIffActive ==
    /\ [](\A w \in Rows :
            activation[w].is_active <=> activation[w].schedule_job_id # NoJob)
    /\ [][/\ reply'.op = "activate" /\ reply'.status = "success" =>
               /\ reply'.job_id \in jobs'
               /\ activation'[reply'.workflow_id] =
                     [is_active |-> TRUE, schedule_job_id |-> reply'.job_id]
          /\ reply'.op = "deactivate" /\ reply'.status = "success" =>
               /\ reply'.job_id = activation[reply'.workflow_id].schedule_job_id
               /\ reply'.job_id \notin jobs'
               /\ activation'[reply'.workflow_id] =
                     [is_active |-> FALSE, schedule_job_id |-> NoJob]]_vars

\* A deactivation has removed the job whose id an earlier activation stored
\* and has cleared the row's fields.
C15_Witness ==
    /\ reply.op = "deactivate" /\ reply.status = "success"
    /\ reply.job_id # NoJob
    /\ reply.job_id \notin jobs
    /\ ~activation[reply.workflow_id].is_active


\* The events of an execution that are neither its "running" event nor a
\* terminal one.
NodeEvents(i) ==
    SelectSeq(broadcasts[i], LAMBDA e : e.status \notin {"running", "completed", "failed"})

\* The visits of an execution to nodes other than the start node.
NonStartVisits(i) ==
    SelectSeq(trace[i], LAMBDA v : KindOf(GraphOf(i), v.node) # "start")

\* node_data.get("label") or node_type
LabelOf(graph, node_id) ==
    LET node == graph.nodes[FindNode(graph.nodes, node_id)]
    IN IF node.data.label \in {Absent, ""} THEN node.type ELSE node.data.label

\* The flag of a handler result: success for status success, error
\* otherwise, info for a handler without a result.
FlagOf(res) ==
    IF res.isNone THEN "info" ELSE IF res.status = "success" THEN "success" ELSE "error"

\* C16: after each non-start node's handler has run, exactly one progress
\* event for that node is on the broadcast channel, and the event carries
\* the node's label and a success/error flag that reflects the status of
\* the handler's result.  Stated when the traversal has returned.
C16_EventPerNodeWithFlag ==
    \A i \in Invocations :
        pc[i] = "completing" =>
            /\ Len(NodeEvents(i)) = Len(NonStartVisits(i))
            /\ \A k \in 1..Len(NodeEvents(i)) :
                  /\ NodeEvents(i)[k].message =
                        "Executed: " \o LabelOf(GraphOf(i), NonStartVisits(i)[k].node)
                  /\ NodeEvents(i)[k].status = FlagOf(NonStartVisits(i)[k].result)

-----------------------------------------------------------------------------
(* Context variables.                                                      *)

\* The execution of invocation i has its context and has run no node yet.
BeforeFirstNode(i) == pc[i] \in {"prepare", "traverse"} /\ trace[i] = <<>>

\* The result of the first visit of a node, NoResult when it was not visited.
ResultAt(i, node_id) ==
    LET hits == SelectSeq(Indices(trace[i]), LAMBDA k : trace[i][k].node = node_id)
    IN IF hits = <<>> THEN NoResult ELSE trace[i][Head(hits)].result

Visited(i, node_id) == \E k \in DOMAIN trace[i] : trace[i][k].node = node_id

TimedOut(i) ==
    \E k \in DOMAIN logs[i] :
        logs[i][k] = LogEntry("WebSocket timeout, using API fallback", "warning")

\* node_data.get("outputVariable", "ltp") of a node of the graph.
OutputVariableOf(graph, node_id) ==
    LET output_var == graph.nodes[FindNode(graph.nodes, node_id)].data.outputVariable
    IN IF output_var = Absent THEN "ltp" ELSE output_var

\* C18: when subscribeLtp receives no stream message within the wait and the
\* REST quote answers with an LTP, the handler returns status success with
\* fallback true and ltp equal to the REST LTP, and once it has returned
\* the node's output variable holds the REST LTP.
C18_FallbackStoresRestLtp ==
    \A i \in Invocations :
        (Visited(i, "q") /\ GraphOf(i) \in QuoteGraphs /\ TimedOut(i)
           /\ rest_quote \in {Quote(PyInt(101)), Quote(PyInt(250))}) =>
            LET res == ResultAt(i, "q")
                rest_ltp == DictGet(DictGet(rest_quote.items, "data").d, "ltp")
            IN /\ res.status = "success"
               /\ DictGet(res.data, "fallback") = PyBool(TRUE)
               /\ DictGet(res.data, "ltp") = rest_ltp
               /\ DictGet(variables[i], OutputVariableOf(GraphOf(i), "q")) = rest_ltp

\* The visit appended in this step by invocation i, and its node.
Appended(i) == wf[i] # 0 /\ Len(trace'[i]) = Len(trace[i]) + 1
LastVisit(i) == trace'[i][Len(trace'[i])]
LastNode(i) == GraphOf(i).nodes[FindNode(GraphOf(i).nodes, LastVisit(i).node)]

\* The divisor of a variable node is zero: the JSON number 0, or a JSON
\* string that writes 0 once its placeholders are filled in.
ZeroDivisor(node_data, variables_, clock) ==
    LET text == interpolate(node_data.valueText, variables_, clock)
    IN IF node_data.value # PyNone
       THEN node_data.value.t \in {"int", "float"} /\ node_data.value.n = 0
       ELSE text \in DOMAIN FloatLiteral /\ FloatLiteral[text] = 0

\* C19: a variable node with operation divide whose divisor is zero, and a
\* mathExpression node whose expression divides by zero, each return an
\* error result and leave the context's variables as they were.
C19_DivisionByZeroIsAnError ==
    [][\A i \in Invocations :
          (/\ Appended(i)
           /\ \/ /\ LastNode(i).type = "variable"
                 /\ LastNode(i).data.operation = "divide"
                 /\ ZeroDivisor(LastNode(i).data, variables[i], now)
              \/ /\ LastNode(i).type = "mathExpression"
                 /\ GraphOf(i) \in ZeroDivisionGraphs) =>
             /\ LastVisit(i).result.status = "error"
             /\ variables'[i] = variables[i]]_vars

\* The tree has binary + - * / % **, unary + and -, and literals of
\* numbers in it, and nothing else.
RECURSIVE ArithmeticOnly(_)
ArithmeticOnly(node) ==
    CASE node.kind = "Constant" -> node.value.t \in {"int", "float"}
      [] node.kind = "BinOp" ->
            /\ node.op \in {"Add", "Sub", "Mult", "Div", "Mod", "Pow"}
            /\ ArithmeticOnly(node.args[1])
            /\ ArithmeticOnly(node.args[2])
      [] node.kind = "UnaryOp" ->
            node.op \in {"USub", "UAdd"} /\ ArithmeticOnly(node.args[1])
      [] OTHER -> FALSE

\* C20: a mathExpression node whose expression, once interpolated, contains
\* anything other than the binary operators + - * / % **, unary + and -,
\* parentheses and numeric literals returns an error result and writes no
\* variable.
C20_OnlyArithmeticAccepted ==
    [][\A i \in Invocations :
          (/\ Appended(i)
           /\ LastNode(i).type = "mathExpression"
           /\ ~ArithmeticOnly(Fill(LastNode(i).data.expression.tree, variables[i]))) =>
             /\ LastVisit(i).result.status = "error"
             /\ variables'[i] = variables[i]]_vars

-----------------------------------------------------------------------------
(* Interpolation.                                                          *)

\* The path leads through dicts of `value` to a value that is not None.
RECURSIVE Resolves(_, _)
Resolves(value, parts) ==
    IF parts = <<>> THEN value.t # "none"
    ELSE /\ value.t = "dict"
         /\ \E k \in DOMAIN value.d :
               value.d[k][1] = Head(parts) /\ Resolves(value.d[k][2], Tail(parts))

IsBuiltin(segment) == \E k \in DOMAIN Builtins(now) : Builtins(now)[k][1] = Dotted(segment.path)

\* What a segment of a text is to become.
Expected(segment) ==
    IF segment.lit THEN segment.text
    ELSE IF IsBuiltin(segment) THEN DictGet(Builtins(now), Dotted(segment.path)).s
    ELSE IF Resolves(PyDict(variables[1]), segment.path)
    THEN Str(Walk(PyDict(variables[1]), segment.path))
    ELSE segment.text

RECURSIVE ExpectedText(_)
ExpectedText(text) ==
    IF text = <<>> THEN "" ELSE Expected(Head(text)) \o ExpectedText(Tail(text))

\* C21: interpolate returns a string without placeholders unchanged, leaves
\* verbatim every placeholder whose path resolves neither to a builtin nor,
\* segment by segment, to a value in variables, and substitutes the
\* placeholders that do resolve.
C21_UnknownPlaceholdersVerbatim ==
    probe.fn = "interpolate" =>
        /\ (\A k \in DOMAIN probe.text : probe.text[k].lit) => probe.out = RawText(probe.text)
        /\ probe.out = ExpectedText(probe.text)

\* A text with a placeholder that resolves, one whose last key is missing
\* and one whose value is None has been interpolated.
C21_Witness ==
    /\ probe.fn = "interpolate"
    /\ probe.out = "v=SBIN/2/{{a.c}}"

PlainName(name) ==
    /\ SplitName(name) = <<name>>
    /\ \A k \in DOMAIN Builtins(now) : Builtins(now)[k][1] # name

-----------------------------------------------------------------------------
(* Handlers.                                                               *)

C24_InvalidOperatorIsAnError ==
    \A i \in Invocations :
        (/\ Visited(i, "c")
         /\ GraphOf(i) \in ConditionGraphs
         /\ KindOf(GraphOf(i), "c") \in ConditionKinds
         /\ GraphOf(i).nodes[FindNode(GraphOf(i).nodes, "c")].data.operator
               \notin ConditionOperators \cup {Absent}) =>
            /\ ResultAt(i, "c").status = "error"
            /\ ~Visited(i, "a")
            /\ ~Visited(i, "b")

-----------------------------------------------------------------------------
(* Errors and the log.                                                     *)

\* The entries invocation i appends to its log in this step.
NewEntries(i) == SubSeq(logs'[i], Len(logs[i]) + 1, Len(logs'[i]))

HasErrorEntry(entries) == \E k \in DOMAIN entries : entries[k].level = "error"

\* C25: every handler result with status error comes with an entry of level
\* error that the handler appends to the execution's log, and an execution
\* that fails has an entry of level error carrying the fatal error.
C25_EveryErrorIsLogged ==
    [][\A i \in Invocations :
          /\ (Appended(i) /\ LastVisit(i).result.status = "error") =>
                 HasErrorEntry(NewEntries(i))
          /\ (pc[i] # "failing" /\ pc'[i] = "failing") => exc'[i] # None
          /\ (pc[i] = "failing" /\ pc'[i] # "failing") =>
                 HasErrorEntry(NewEntries(i))]_vars

-----------------------------------------------------------------------------
(* The gateway's configuration.                                            *)

\* get_openalgo_client gives no client: no key is stored, or the stored key
\* does not decrypt.
Unconfigured == app_settings \in {"no api key", "undecryptable key"}

\* C26: when the gateway is not configured or its key does not decrypt,
\* every invocation that gets past the lock has its execution record, which
\* ends with status failed and the error "OpenAlgo not configured", the row
\* holding the same once the except clause's commit succeeded; no node is
\* dispatched and no call reaches the gateway; and the invocation, once it
\* has ended, never runs again.
C26_UnconfiguredFailsOnce ==
    /\ [](Unconfigured =>
            \A i \in Invocations :
               /\ pc[i] \notin {"traverse", "completing"}
               /\ pc[i] \in {"prepare", "failing"} => execution[i].id # 0
               /\ pc[i] = "failing" => exc[i] = NotConfigured
               /\ trace[i] = <<>>
               /\ gateway_calls[i] = <<>>
               /\ (pc[i] = "done" /\ i \in Accepted) =>
                     /\ execution[i].status = "failed"
                     /\ execution[i].error = NotConfigured
                     /\ result[i].status = "error" =>
                           /\ RowOf(i).status = "failed"
                           /\ RowOf(i).error = NotConfigured)
    /\ [][Unconfigured =>
             \A i \in Invocations :
                pc[i] = "done" =>
                   /\ pc'[i] = "done"
                   /\ execution'[i] = execution[i]
                   /\ i \in Accepted => executions'[execution[i].id] = RowOf(i)]_vars

\* An execution that found no key stored has ended, its row failed.
C26_Witness ==
    \E i \in Invocations :
        /\ app_settings = "no api key"
        /\ i \in Accepted
        /\ pc[i] = "done"
        /\ RowOf(i).status = "failed"
        /\ RowOf(i).error = NotConfigured

-----------------------------------------------------------------------------
(* Options orders and their expiry.                                        *)

\* The gateway listed its expiries and _resolve_expiry_date was asked for
\* this expiry type.
Resolved(expiry_type) ==
    /\ probe.fn = "_resolve_expiry_date"
    /\ probe.name = expiry_type
    /\ ~rest_expiry.raises
    /\ rest_expiry.status = "success"

\* The positions of the listed entries that are dates, and their dates.
Dated == {k \in DOMAIN rest_expiry.data : parse_expiry(rest_expiry.data[k]) # NoDate}
DateAt(k) == parse_expiry(rest_expiry.data[k])

\* The positions of the dated entries of a calendar month.
InMonth(year, month) == {k \in Dated : DateAt(k)[1] = year /\ DateAt(k)[2] = month}

\* The entry at position k is the one resolved: its dashes removed, in
\* upper case.
ResolvedTo(k) == probe.out = format_expiry_for_api(rest_expiry.data[k])

\* The latest of the entries at the positions S is resolved, None when S is
\* empty.
LatestOf(S) ==
    IF S = {} THEN probe.out = None
    ELSE \E k \in S : ResolvedTo(k) /\ \A j \in S : ~Before(DateAt(k), DateAt(j))

NextCalendar == IF calendar[2] = 12 THEN <<calendar[1] + 1, 1>> ELSE <<calendar[1], calendar[2] + 1>>

\* C28: of the listed entries, those that are not dates dropped,
\* current_week resolves to the earliest, next_week to the second earliest,
\* current_month to the latest of the current calendar month and next_month
\* to the latest of the next calendar month, January of the following year
\* after December; None where there is no such entry.
C28_ExpirySelection ==
    /\ Resolved("current_week") =>
          IF Dated = {} THEN probe.out = None
          ELSE \E k \in Dated : ResolvedTo(k) /\ \A j \in Dated : ~Before(DateAt(j), DateAt(k))
    /\ Resolved("next_week") =>
          IF Cardinality(Dated) < 2 THEN probe.out = None
          ELSE \E f \in Dated :
                  /\ \A j \in Dated : ~Before(DateAt(j), DateAt(f))
                  /\ \E k \in Dated \ {f} :
                        /\ ResolvedTo(k)
                        /\ \A j \in Dated \ {f} : ~Before(DateAt(j), DateAt(k))
    /\ Resolved("current_month") => LatestOf(InMonth(calendar[1], calendar[2]))
    /\ Resolved("next_month") => LatestOf(InMonth(NextCalendar[1], NextCalendar[2]))

\* In December 2025 next_month resolved to the later of two January
\* expiries, which the gateway listed latest first and followed by an entry
\* that is no date.
C28_Witness ==
    /\ Resolved("next_month")
    /\ calendar = <<2025, 12>>
    /\ rest_expiry.data = <<<<"27", "-", "jan", "-", "26">>, <<"06", "JAN", "26">>,
                             <<"2026", "-", "01", "-", "27">>>>
    /\ probe.out = "27JAN26"

\* The gateway's answer holds nothing the expiry type resolves to: an error
\* or an exception, an empty list, no entry that is a date, no entry that
\* matches, or an expiry type that is not known.
CannotResolve(expiry_type) ==
    \/ rest_expiry.raises
    \/ rest_expiry.status # "success"
    \/ Dated = {}
    \/ expiry_type = "next_week" /\ Cardinality(Dated) < 2
    \/ expiry_type = "current_month" /\ InMonth(calendar[1], calendar[2]) = {}
    \/ expiry_type = "next_month" /\ InMonth(NextCalendar[1], NextCalendar[2]) = {}
    \/ expiry_type \notin ExpiryTypes

\* The expiry type of the options node of invocation i's workflow.
ExpiryTypeAt(i) == ExpiryTypeOf(GraphOf(i).nodes[FindNode(GraphOf(i).nodes, "o")].data)

OrderCalls == {"optionsorder", "optionsmultiorder"}

\* C27: when the expiry type of an optionsOrder or optionsMultiOrder node
\* cannot be resolved, the node returns a result with status error, no order
\* reaches the gateway, the traversal raises no exception and it goes on to
\* the targets of all the node's outgoing edges.
C27_UnresolvedExpiryIsAnErrorResult ==
    \A i \in Invocations :
        (/\ Visited(i, "o")
         /\ KindOf(GraphOf(i), "o") \in OptionsKinds
         /\ CannotResolve(ExpiryTypeAt(i))) =>
            /\ ResultAt(i, "o").status = "error"
            /\ \A k \in DOMAIN gateway_calls[i] : gateway_calls[i][k] \notin OrderCalls
            /\ exc[i] \in {None, CommitFailed}
            /\ pc[i] \in {"completing", "failing", "done"} =>
                  Visited(i, "l") /\ Visited(i, "n")

\* An execution whose multi-leg order found no expiry of next month among
\* the dates listed has completed after visiting both nodes behind the
\* order.
C27_Witness ==
    \E i \in Invocations :
        /\ Visited(i, "o")
        /\ KindOf(GraphOf(i), "o") = "optionsMultiOrder"
        /\ ExpiryTypeAt(i) = "next_month"
        /\ Dated # {}
        /\ CannotResolve("next_month")
        /\ ResultAt(i, "o").status = "error"
        /\ Visited(i, "l")
        /\ Visited(i, "n")
        /\ execution[i].status = "completed"

-----------------------------------------------------------------------------
(* Setup of the admin.                                                     *)

Succeeded == {r \in SetupCalls : setup_calls[r].status = 200}

\* C29: a setup request that arrives when is_setup_complete is true is
\* refused and leaves the rows as they are, and at most one setup request
\* ever succeeds, requests in flight at the same time included.
C29_SetupSucceedsOnce ==
    /\ [](Cardinality(Succeeded) <= 1)
    /\ [][\A r \in SetupCalls :
             (/\ SetupComplete(admin_rows)
              /\ setup_calls[r].at = "idle"
              /\ setup_calls'[r].at # "idle") =>
                 /\ setup_calls'[r].status = 400
                 /\ admin_rows' = admin_rows]_vars

-----------------------------------------------------------------------------
(* Time strings.                                                           *)

\* The largest value of the hour, the minute and the second.
Largest == <<23, 59, 59>>

\* C30: parse_time_string returns an hour in 0..23, a minute in 0..59 and a
\* second in 0..59; a component whose part is a string of decimal digits is
\* that number clamped into its range, and a component whose part is missing
\* or is no string of digits is the caller's default, 0 for the second.
C30_ParseTimeIsDefensive ==
    probe.fn = "parse_time_string" =>
        LET parts == probe.text
            default == <<probe.value[1], probe.value[2], 0>>
        IN /\ probe.out \in (0..23) \X (0..59) \X (0..59)
           /\ \A k \in 1..3 :
                 IF Len(parts) >= k /\ parts[k] \in DOMAIN DigitValue
                 THEN probe.out[k] = Clamp(0, Largest[k], DigitValue[parts[k]])
                 ELSE (Len(parts) < k \/ ~IsDigit(parts[k])) => probe.out[k] = default[k]

-----------------------------------------------------------------------------
(* The getters of node fields.                                             *)

\* The text of the field as interpolate leaves it.
Interpolated == interpolate(probe.value.text, probe.context, now)

\* The field holds something the getter's coercion takes: for get_str a
\* string or a number, for get_int and get_float a number or a string that
\* writes one.
Coerces ==
    /\ probe.value.present
    /\ IF probe.value.is_str
       THEN probe.fn = "get_str" \/ Interpolated \in DOMAIN FloatLiteral
       ELSE probe.value.value.t \in {"int", "float"}

\* The number the field holds or writes.
NumberOf ==
    IF probe.value.is_str THEN FloatLiteral[Interpolated] ELSE probe.value.value.n

\* C31: a getter returns the interpolated, coerced value of a field that is
\* present and coerces, the number 0 included, and the caller's default
\* when the key is absent or the coercion fails.
C31_GettersCoerceOrDefault ==
    /\ probe.fn = "get_str" =>
          probe.out.s = IF ~Coerces THEN probe.default.s
                        ELSE IF probe.value.is_str THEN Interpolated
                        ELSE Str(probe.value.value)
    /\ probe.fn \in {"get_int", "get_float"} =>
          probe.out.n = IF Coerces THEN NumberOf ELSE probe.default.n

-----------------------------------------------------------------------------
(* The table of locks.                                                     *)

\* The Lock object a call of get_workflow_lock(workflow_id) returns from
\* the table `locks`: the id and the number of the object among those made
\* for it.
LockObject(locks, workflow_id) == <<workflow_id, locks[workflow_id].made>>

\* The invocations that called get_workflow_lock in this step.
Callers == {i \in Invocations : pc[i] = "idle" /\ pc'[i] # "idle"}

\* C32: every call for one workflow id returns the same Lock object, calls
\* for different ids return different objects, and the Lock of an id, once
\* in the table, is neither replaced nor removed.
C32_OneLockPerWorkflow ==
    /\ [](\A w \in WorkflowIds : workflow_locks[w].exists <=> workflow_locks[w].made = 1)
    /\ [][/\ \A w \in WorkflowIds :
               workflow_locks[w].exists =>
                   /\ workflow_locks'[w].exists
                   /\ LockObject(workflow_locks', w) = LockObject(workflow_locks, w)
           /\ \A i \in Callers :
               /\ workflow_locks'[wf'[i]].exists
               /\ \A j \in Invocations \ {i} :
                     pc[j] # "idle" =>
                       (wf[j] = wf'[i] <=>
                          LockObject(workflow_locks', wf'[i]) = LockObject(workflow_locks, wf[j]))
          ]_vars

\* Two scheduler threads asked for the lock of workflow 1, not seen before,
\* and neither has acquired it yet.
C32_Witness ==
    \E i \in Invocations, j \in Invocations :
        /\ i # j
        /\ via[i] = "scheduler" /\ via[j] = "scheduler"
        /\ wf[i] = 1 /\ wf[j] = 1
        /\ pc[i] = "acquire" /\ pc[j] = "acquire"
        /\ workflow_locks[1].exists

-----------------------------------------------------------------------------
(* The order of an execution's events.                                     *)

\* The node events are those of the visits to non-start nodes, in the order
\* of the traversal, the last visit having none when its handler raised.
InTraversalOrder(i) ==
    /\ Len(NodeEvents(i)) \in {Len(NonStartVisits(i)), Len(NonStartVisits(i)) - 1}
    /\ \A k \in 1..Len(NodeEvents(i)) :
          NodeEvents(i)[k].message =
             "Executed: " \o LabelOf(GraphOf(i), NonStartVisits(i)[k].node)

\* C33: the events of an accepted execution are one running event, first,
\* the node events in traversal order, and, once the invocation has ended,
\* exactly one terminal event, last, whose status is the final status of the
\* execution record.
C33_EventsInOrder ==
    \A i \in Accepted :
        LET events == broadcasts[i]
        IN /\ events # <<>>
           /\ events[1].status = "running"
           /\ \A k \in 2..Len(events) : events[k].status # "running"
           /\ \A k \in 1..Len(events) : events[k].status \in Terminal => k = Len(events)
           /\ InTraversalOrder(i)
           /\ pc[i] = "done" =>
                 /\ events[Len(events)].status \in Terminal
                 /\ events[Len(events)].status = RowOf(i).status

-----------------------------------------------------------------------------
(* The lock after execute_workflow has returned.                           *)

\* The invocation i is inside `async with lock`.
InsideLock(i) == pc[i] \in {"locked", "prepare", "traverse", "completing", "failing"}

\* Every invocation for workflow w that was called has returned.
AllReturned(w) == \A j \in Invocations : wf[j] = w => pc[j] \in {"idle", "done"}

\* C34: whichever way execute_workflow returns from inside the lock -- no
\* workflow row, completed, failed, an exception that escapes the except
\* clause -- the lock of the workflow is not locked afterwards; an
\* invocation that is called when every earlier invocation for its workflow
\* has returned is not rejected as already running.
C34_LockReleasedOnReturn ==
    /\ [](\A w \in WorkflowIds : AllReturned(w) => ~Locked(workflow_locks[w]))
    /\ [][\A i \in Invocations :
            /\ (InsideLock(i) /\ pc'[i] = "done") => ~Locked(workflow_locks'[wf[i]])
            /\ (pc[i] = "idle" /\ pc'[i] # "idle" /\ AllReturned(wf'[i])) =>
                  /\ pc'[i] = "acquire"
                  /\ ~result'[i].already_running]_vars

\* The first HTTP invocation left execute_workflow by an exception, its
\* failure handling having failed, and the second, for the same workflow,
\* was let in after it.
C34_Witness ==
    /\ via[1] = "http" /\ via[2] = "http"
    /\ wf[1] = wf[2]
    /\ pc[1] = "done"
    /\ result[1].status = "exception"
    /\ execution[1].status = "failed"
    /\ pc[2] = "locked"

-----------------------------------------------------------------------------
(* No join and no memoization.                                             *)

\* The edges of the graph that lead out of the node of visit p and that the
\* result of that visit lets through, towards a node that exists.
FollowedFrom(i, p) ==
    LET graph == GraphOf(i)
        res == trace[i][p].result
    IN {e \in DOMAIN graph.edges :
          /\ graph.edges[e].source = trace[i][p].node
          /\ FindNode(graph.nodes, graph.edges[e].target) # 0
          /\ (~res.isNone /\ res.hasCond) =>
                /\ graph.edges[e].sourceHandle = "yes" => res.cond
                /\ graph.edges[e].sourceHandle = "no" => ~res.cond}

\* The visits made from visit p over edge e.
ChildrenOver(i, p, e) ==
    {v \in DOMAIN trace[i] : trace[i][v].parent = p /\ trace[i][v].edge = e}

\* How many times the node ran.
RunsOf(i, node_id) == Cardinality({v \in DOMAIN trace[i] : trace[i][v].node = node_id})

\* How many followed edges lead into the node, counted once for every visit
\* of their source: the number of followed paths that end in the node.
PathsInto(i, node_id) ==
    Cardinality({pe \in (DOMAIN trace[i]) \X (DOMAIN GraphOf(i).edges) :
                    /\ pe[2] \in FollowedFrom(i, pe[1])
                    /\ GraphOf(i).edges[pe[2]].target = node_id})

\* The place-order calls that reached the gateway.
OrdersPlaced(i) == SelectSeq(gateway_calls[i], LAMBDA c : c = "placeorder")

\* C35: the traverser neither joins nor memoizes.  When a traversal has
\* returned, every visit has made one visit of its own over each edge it
\* followed, whether or not the target had run before, so a node other
\* than the start node has run once for every followed path into it; and
\* the placeOrder node below the and-gate has sent one order for every
\* time it was reached.
C35_OneRunPerPath ==
    \A i \in Invocations :
        pc[i] = "completing" =>
            /\ \A p \in DOMAIN trace[i] :
                  \A e \in FollowedFrom(i, p) : Cardinality(ChildrenOver(i, p, e)) = 1
            /\ \A k \in DOMAIN GraphOf(i).nodes :
                  GraphOf(i).nodes[k].type # "start" =>
                      RunsOf(i, GraphOf(i).nodes[k].id) = PathsInto(i, GraphOf(i).nodes[k].id)
            /\ AndGateRunOver(i) => Len(OrdersPlaced(i)) = RunsOf(i, "o")

\* Both conditionals were true: the gate was reached once from each, let the
\* traversal through both times, and two orders went to the gateway.
C35_Witness ==
    \E i \in Invocations :
        /\ AndGateRunOver(i)
        /\ RunsOf(i, "g") = 2
        /\ RunsOf(i, "o") = 2
        /\ Len(OrdersPlaced(i)) = 2

-----------------------------------------------------------------------------
(* Edges to a node that does not exist.                                    *)

\* The id execute_node_chain is called with next.
NextTarget(i) ==
    LET frames == stack[i]
    IN GraphOf(i).edges[NextEdge(frames[Len(frames)].todo)].target

\* No node of the graph has the id.
Missing(i, node_id) == \A k \in DOMAIN GraphOf(i).nodes : GraphOf(i).nodes[k].id # node_id

\* In this step execute_node_chain is called for an id that no node has,
\* and gets past the depth and visit limits.
DanglingStep(i) ==
    /\ pc[i] = "traverse"
    /\ stack[i] # <<>>
    /\ Missing(i, NextTarget(i))
    /\ visited_count'[i] # visited_count[i]

\* The call is counted, runs no handler, sends nothing to the gateway and
\* broadcasts nothing, raises nothing, and returns to the loop over the
\* caller's remaining edges.
EndsTheBranch(i) ==
    /\ TotalVisits(visited_count'[i]) = TotalVisits(visited_count[i]) + 1
    /\ VisitsOf(visited_count'[i], NextTarget(i)) =
          VisitsOf(visited_count[i], NextTarget(i)) + 1
    /\ trace'[i] = trace[i]
    /\ gateway_calls'[i] = gateway_calls[i]
    /\ broadcasts'[i] = broadcasts[i]
    /\ variables'[i] = variables[i]
    /\ pc'[i] # "failing" /\ exc'[i] = exc[i]
    /\ stack'[i] = Unwind([stack[i] EXCEPT ![Len(stack[i])].todo = Tail(@)])

\* C36 as stated: an edge whose target matches no node ends that branch
\* silently: the visit is counted, no handler runs, nothing is logged or
\* broadcast, the execution does not fail and the sibling edges are still
\* traversed.
C36_DanglingEdgeIsSilent ==
    [][\A i \in Invocations :
         DanglingStep(i) => EndsTheBranch(i) /\ logs'[i] = logs[i]]_vars

\* C36 as amended: the same, but for the log: nothing is logged while the
\* missing id has been called for at most WarnAfterVisits times, and each
\* call after those appends one entry of level warning.
C36_DanglingEdgeEndsItsBranch ==
    [][\A i \in Invocations :
         DanglingStep(i) =>
            /\ EndsTheBranch(i)
            /\ IF VisitsOf(visited_count'[i], NextTarget(i)) <= WarnAfterVisits
               THEN logs'[i] = logs[i]
               ELSE /\ Len(logs'[i]) = Len(logs[i]) + 1
                    /\ SubSeq(logs'[i], 1, Len(logs[i])) = logs[i]
                    /\ logs'[i][Len(logs'[i])].level = "warning"]_vars

\* The traversal returned after calls for the missing id, the siblings of
\* the dangling edges visited: the log node, and in the graph Dangling the
\* placeOrder node, whose order went out.
C36_Witness ==
    \E i \in Invocations :
        /\ pc[i] = "completing"
        /\ GraphOf(i) \in DanglingGraphs
        /\ VisitsOf(visited_count[i], "ghost") \in {2, 4, WarnAfterVisits + 1}
        /\ Visited(i, "l")
        /\ GraphOf(i) = Dangling => Visited(i, "o") /\ gateway_calls[i] = <<"placeorder">>

-----------------------------------------------------------------------------
(* Executions of different workflows.                                      *)

\* The invocation has the lock of its workflow, or is about to set it.
HasLock(i) == InsideLock(i) \/ pc[i] = "acquire_set"

\* C37: executions of different workflows neither reject nor block each
\* other.  An invocation is answered already_running only when the lock of
\* its own workflow is locked, and waits on a lock only behind another
\* invocation for the same workflow; the lock of a workflow is locked only
\* after an invocation for that workflow acquired it, and a step of an
\* invocation leaves the locks of the other workflows as they are.
C37_WorkflowsDoNotInterfere ==
    /\ [](\A i \in Invocations :
            /\ (pc[i] = "done" /\ result[i].already_running) =>
                  \E j \in Invocations \ {i} : wf[j] = wf[i] /\ pc[j] # "idle"
            /\ pc[i] = "waiting" =>
                  \E j \in Invocations \ {i} : wf[j] = wf[i] /\ pc[j] # "idle")
    /\ [][\A i \in Invocations :
            /\ (pc[i] = "idle" /\ pc'[i] # "idle") =>
                  (result'[i].already_running <=> Locked(workflow_locks[wf'[i]]))
            /\ pc'[i] # pc[i] =>
                  \A w \in WorkflowIds \ {wf'[i]} : workflow_locks'[w] = workflow_locks[w]]_vars

\* An invocation for workflow 2 was called while an execution of workflow 1
\* was inside its lock, and runs its own nodes beside it.
C37_Witness ==
    \E i \in Invocations, j \in Invocations :
        /\ wf[i] = 1 /\ wf[j] = 2
        /\ i < j
        /\ pc[i] = "traverse" /\ trace[i] # <<>>
        /\ pc[j] = "traverse" /\ trace[j] # <<>>
        /\ Locked(workflow_locks[1]) /\ Locked(workflow_locks[2])

-----------------------------------------------------------------------------
(* A workflow id without a row.                                            *)

\* In this step the invocation, inside the lock, looks the workflow up and
\* finds no row.
FindsNoRow(i) == pc[i] = "locked" /\ pc'[i] # "locked" /\ workflows[wf[i]] = NoRow

\* C38: an execution of a workflow id that has no row returns the error
\* envelope "Workflow not found", creates no execution record, broadcasts
\* nothing, and leaves the lock of the workflow released.
C38_NotFoundReturnsEnvelope ==
    [][\A i \in Invocations :
         FindsNoRow(i) =>
            /\ pc'[i] = "done"
            /\ result'[i] = Envelope("error", "Workflow not found", FALSE, 0)
            /\ executions' = executions
            /\ execution'[i].id = 0
            /\ broadcasts' = broadcasts
            /\ ~Locked(workflow_locks'[wf[i]])]_vars

-----------------------------------------------------------------------------
(* Activations that fail.                                                  *)

\* In this step activate_workflow(w) is called and answers.
ActivationOf(w) ==
    /\ reply'.op = "activate"
    /\ reply'.workflow_id = w
    /\ reply' # reply \/ activation' # activation \/ jobs' # jobs

\* The row of w has no node of kind start.
HasNoStart(w) == \A k \in DOMAIN workflows[w].nodes : workflows[w].nodes[k].type # "start"

\* The answer is an error envelope with this message, and is_active and
\* schedule_job_id of every row, and the jobs of the scheduler, are as they
\* were.
FailsWith(message) ==
    /\ reply'.status = "error"
    /\ reply'.message = message
    /\ activation' = activation
    /\ jobs' = jobs

\* C39: an activation of a workflow that has no row, or no start node, or
\* for which the scheduler raises while adding the job, is answered with an
\* error envelope and leaves is_active and schedule_job_id as they were.
C39_FailedActivationChangesNothing ==
    [][\A w \in WorkflowIds :
         ActivationOf(w) =>
            /\ workflows[w] = NoRow => FailsWith("Workflow not found")
            /\ (workflows[w] # NoRow /\ HasNoStart(w)) => FailsWith(NoStartNode)
            /\ reply'.message = "scheduler error" => FailsWith("scheduler error")]_vars

\* The scheduler raised while a job was added for a workflow that is active:
\* the row is still active, with the job id it had.
C39_Witness ==
    /\ reply.op = "activate"
    /\ reply.status = "error"
    /\ reply.message = "scheduler error"
    /\ activation[reply.workflow_id].is_active
    /\ activation[reply.workflow_id].schedule_job_id \in jobs

====
